---------------------------- MODULE Spec2Model ----------------------------
(***************************************************************************)
(* A model of dnsmgr: the reconciliation of a records set into the include *)
(* files of an ISC BIND name server (dnsmgr.py, dnsmgr_isc_bind.py,        *)
(* dnsmgr_util.py, file_loader.py).                                        *)
(*                                                                         *)
(* Text (zone names, file contents) is a sequence of one-character         *)
(* strings, so that suffix tests, splitting, slicing and the parsing of    *)
(* digits are computed the way the Python code computes them.              *)
(***************************************************************************)
EXTENDS Integers, Sequences, FiniteSets, TLC

VARIABLES
    zones,      \* the Zones object: forward, reverse4, reverse6 lists and the tries
    pend,       \* master zone names still to be handed to add_zone*
    pcL,        \* position of the index construction
    lk,         \* the last LPM lookup made: family, address, result
    conf,       \* the zone statements of the name-server configuration
    ignorezones,\* NS_Manager.ignorezones
    remote,     \* NS_Manager.remote is set: the name server is reached over ssh
    nszones,    \* NS_Manager.zones: the ZoneInfo list of the last getZones
    lfs,        \* the files of the host dnsmgr runs on, by path
    rfs,        \* the files of the remote name-server host, by path
    pc,         \* the statement the running command is at
    mode,       \* the command that runs: "rebuild", "cli" or "none"
    cur,        \* the zone saveZone / increaseSoaSerial works on
    todo,       \* the zones rebuild has still to save, in iteration order
    records,    \* the records handed to the running rebuild
    today,      \* datetime.datetime.now().date()
    runs,       \* commands started so far
    faults,     \* transport faults so far
    log,        \* the effects of the running command on the name server, in order
    failed,     \* the step of the running (or last) command that failed, or ""
    srv0,       \* the files of the name server when the command started
    prev,       \* how the command before this one ended, and its records
    given,      \* how the zone files were written before the first command
    pfiles,     \* the configuration files of the name server, by file name
    pstk,       \* the Parser objects of the nested parseBindConfigFile calls
    ppc,        \* the statement getZones is at
    pzone,      \* the ZoneInfo parseZone is filling
    pzones,     \* NS_Manager.zones while getZones fills it, in insertion order
    declared,   \* the declarations Records.load has read so far, in file order
    queue,      \* the records rebuild has still to route, in iteration order
    rrlog,      \* the resource records rebuild has handed to the zones, in order
    lpc,        \* the statement the loading and routing is at
    dconfig,    \* DHCPd_manager.config: the include-files configured, by family
    ddisk,      \* the DHCP include-files on disk, by family
    drecords,   \* the records handed to the running update
    dtemp,      \* the temp files of the MyFile objects update has made, by family
    dpc,        \* the statement update is at
    dlog,       \* the writes and restarts of the running (or last) update, in order
    ddisk0,     \* the include-files on disk when the update started
    dprev,      \* the records and the end of the update before this one
    dupdates,   \* updates started so far
    rline,      \* the line of the records file Records.load has read last
    rdomain,    \* Records.domain; the empty text for None
    rout,       \* what the line came to: a record, a directive, nothing, an exception
    rcount      \* lines read so far

lpmVars == <<pend, pcL, lk>>

cfgVars == <<conf, ignorezones, remote, today, given>>

fileVars == <<lfs, rfs>>

runVars == <<nszones, pc, mode, cur, todo, records, runs, faults, log, failed,
             srv0, prev>>

parseVars == <<pfiles, pstk, ppc, pzone, pzones>>

loadVars == <<declared, queue, rrlog, lpc>>

dhcpVars == <<dconfig, ddisk, drecords, dtemp, dpc, dlog, ddisk0, dprev, dupdates>>

lineVars == <<rline, rdomain, rout, rcount>>

moreVars == <<dhcpVars, lineVars>>

vars == <<zones, lpmVars, cfgVars, fileVars, runVars, parseVars, loadVars, moreVars>>

-----------------------------------------------------------------------------
(* Text helpers *)

None == "None"

EmptyMap == [k \in {} |-> None]

\* a file that does not exist
NoFile == [exists |-> FALSE, data |-> <<>>]

\* no date
NoDate == [y |-> 1, m |-> 1, d |-> 1]

\* no command has run yet
NoPrev == [mode |-> "none", failed |-> "", records |-> <<>>, log |-> <<>>]

\* no zone file has been written
NoShape == [pre |-> <<>>, post |-> <<>>, digits |-> 0]

\* getZones has not been called
NoParse ==
    /\ pfiles = EmptyMap /\ pstk = <<>> /\ ppc = "off"
    /\ pzone = EmptyMap /\ pzones = <<>>

\* no records file is being loaded
NoLoad == declared = <<>> /\ queue = <<>> /\ rrlog = <<>> /\ lpc = "off"

\* DHCPd_manager.update has not been called
NoDhcp ==
    /\ dconfig = EmptyMap /\ ddisk = EmptyMap /\ drecords = EmptyMap /\ dtemp = EmptyMap
    /\ dpc = "off" /\ dlog = <<>> /\ ddisk0 = EmptyMap /\ dprev = EmptyMap /\ dupdates = 0

\* Records.load of dnsmgr_util.py has not been called
NoLine == rline = <<>> /\ rdomain = <<>> /\ rout = [kind |-> "none", ok |-> TRUE] /\ rcount = 0

\* nothing but the name server is at work
NoMore == NoDhcp /\ NoLine

\* the outcome of a call: a value returned, or an exception raised
Ok(x) == [ok |-> TRUE, v |-> x]
Raised(e) == [ok |-> FALSE, v |-> e]

Digits == {"0","1","2","3","4","5","6","7","8","9"}

\* int(c) of one decimal digit character; -1 stands for the ValueError
DecVal(c) ==
    CASE c = "0" -> 0 [] c = "1" -> 1 [] c = "2" -> 2 [] c = "3" -> 3
      [] c = "4" -> 4 [] c = "5" -> 5 [] c = "6" -> 6 [] c = "7" -> 7
      [] c = "8" -> 8 [] c = "9" -> 9 [] OTHER -> -1

\* int(c, 16) of one hexadecimal digit character; -1 stands for the ValueError
HexVal(c) ==
    CASE c \in Digits -> DecVal(c)
      [] c \in {"a","A"} -> 10 [] c \in {"b","B"} -> 11 [] c \in {"c","C"} -> 12
      [] c \in {"d","D"} -> 13 [] c \in {"e","E"} -> 14 [] c \in {"f","F"} -> 15
      [] OTHER -> -1

\* s.endswith(suffix)
EndsWith(s, suffix) ==
    /\ Len(s) >= Len(suffix)
    /\ SubSeq(s, Len(s) - Len(suffix) + 1, Len(s)) = suffix

\* s.split(sep) for a one-character separator
RECURSIVE SplitAcc(_, _, _, _)
SplitAcc(s, sep, part, acc) ==
    IF s = <<>> THEN Append(acc, part)
    ELSE IF Head(s) = sep THEN SplitAcc(Tail(s), sep, <<>>, Append(acc, part))
    ELSE SplitAcc(Tail(s), sep, Append(part, Head(s)), acc)

Split(s, sep) == SplitAcc(s, sep, <<>>, <<>>)

\* int(s) of a decimal string; -1 stands for the ValueError
RECURSIVE DecIntAcc(_, _)
DecIntAcc(s, acc) ==
    IF s = <<>> THEN acc
    ELSE IF DecVal(Head(s)) < 0 THEN -1
    ELSE DecIntAcc(Tail(s), 10 * acc + DecVal(Head(s)))

DecInt(s) == IF s = <<>> THEN -1 ELSE DecIntAcc(s, 0)

\* reversed(s)
RECURSIVE Reverse(_)
Reverse(s) == IF s = <<>> THEN <<>> ELSE Append(Reverse(Tail(s)), Head(s))

\* x >> n
Shr(x, n) == x \div (2 ^ n)

SuffixArpa4 == <<".","i","n","-","a","d","d","r",".","a","r","p","a">>
SuffixArpa6 == <<".","i","p","6",".","a","r","p","a">>

-----------------------------------------------------------------------------
(* Mtrie4 / Mtrie6: a trie is the set of its inner nodes, each named by the *)
(* path of stride values leading to it (the root is <<>>), and the leaf     *)
(* maps of all nodes as one map from <<path, index>> to the stored object.  *)

NewTrie == [child |-> {}, obj |-> EmptyMap]

\* every slot of the range takes the new object, written before or not
FillLeavesOverwrite(objmap, path, b, e, obj) ==
    [k \in DOMAIN objmap \cup {<<path, ix>> : ix \in b..e} |->
        IF k \in {<<path, ix>> : ix \in b..e} THEN obj ELSE objmap[k]]

\* for ix in range(b, e + 1): if ix not in p.obj: p.obj[ix] = obj
FillLeaves(objmap, path, b, e, obj) ==
    [k \in DOMAIN objmap \cup {<<path, ix>> : ix \in b..e} |->
        IF k \in DOMAIN objmap THEN objmap[k] ELSE obj]

\* nodes created by the descent along the first n strides
PathNodes(strides, n) == {SubSeq(strides, 1, j) : j \in 1..n}

\* the number of turns of "while l > stride: ... l -= stride"
Descents(l, stride) == IF l > stride THEN (l - 1) \div stride ELSE 0

\* Mtrie4.add_prefix; ip is str(prefix[0]).split("."), already as integers
Mtrie4AddPrefix(t, prefix, obj) ==
    LET n    == Descents(prefix.prefixlen, 8)
        l    == prefix.prefixlen - 8 * n
        path == SubSeq(prefix.addr, 1, n)
        i    == prefix.addr[n + 1]
        e    == i + Shr(128, l)
    IN  [child |-> t.child \cup PathNodes(prefix.addr, n),
         obj   |-> FillLeaves(t.obj, path, i, e, obj)]

\* Mtrie4.lookup / the loop of Mtrie6.lookup, on the integer strides of addr
RECURSIVE TrieWalk(_, _, _, _)
TrieWalk(t, ip, p, found) ==
    LET i  == Head(ip)
        f2 == IF <<p, i>> \in DOMAIN t.obj THEN t.obj[<<p, i>>] ELSE found
    IN  IF Append(p, i) \notin t.child THEN f2
        ELSE TrieWalk(t, Tail(ip), Append(p, i), f2)

\* found = None: no object; objects are zone names, never empty
NoObj == <<>>

Mtrie4Lookup(t, addr) == TrieWalk(t, addr, <<>>, NoObj)

\* the strides of an exploded IPv6 address: int(ip[0], 16) per character
HexStrides(nibs) == [k \in 1..Len(nibs) |-> HexVal(nibs[k])]

\* the terminal stride of Mtrie6.add_prefix: i = int(ip[0])
TerminalNibble(c) == DecVal(c)

\* Mtrie6.add_prefix; raises when the prefix is rejected or int() raises
Mtrie6AddPrefix(t, prefix, obj) ==
    LET n    == Descents(prefix.prefixlen, 4)
        l    == prefix.prefixlen - 4 * n
        ip   == HexStrides(prefix.addr)
        path == SubSeq(ip, 1, n)
        i    == TerminalNibble(prefix.addr[n + 1])
        e    == i + Shr(128, l)
    IN  IF prefix.prefixlen % 4 # 0 \/ i < 0 THEN Raised("ValueError")
        ELSE Ok([child |-> t.child \cup PathNodes(ip, n),
                 obj   |-> FillLeaves(t.obj, path, i, e, obj)])

Mtrie6Lookup(t, addr) == TrieWalk(t, HexStrides(addr), <<>>, NoObj)

-----------------------------------------------------------------------------
(* Dates and the SOA serial (NS_Manager.increaseSoaSerial) *)

NL == "\n"
TAB == "\t"

\* str.isdigit() of one character
IsDigit(c) == c \in Digits

\* s.isdigit(): not empty and all digits
AllDigits(s) == s # <<>> /\ \A k \in 1..Len(s) : IsDigit(s[k])

UpperAlpha == <<"A","B","C","D","E","F","G","H","I","J","K","L","M","N","O","P","Q","R","S","T","U","V","W","X","Y","Z">>
LowerAlpha == <<"a","b","c","d","e","f","g","h","i","j","k","l","m","n","o","p","q","r","s","t","u","v","w","x","y","z">>

\* str.lower() of one character
LowerChar(c) ==
    IF \E i \in 1..Len(UpperAlpha) : UpperAlpha[i] = c
    THEN LowerAlpha[CHOOSE i \in 1..Len(UpperAlpha) : UpperAlpha[i] = c]
    ELSE c

\* s.lower()
Lower(s) == [k \in 1..Len(s) |-> LowerChar(s[k])]

Whitespace == {" ", TAB, NL, "\r"}

\* s.rstrip()
RECURSIVE RStrip(_)
RStrip(s) ==
    IF s # <<>> /\ s[Len(s)] \in Whitespace THEN RStrip(SubSeq(s, 1, Len(s) - 1)) ELSE s

SerialTag == <<";"," ","s","e","r","i","a","l">>

\* f.readline() at offset fpos: the bytes up to and including the next newline
RECURSIVE ReadLine(_, _)
ReadLine(f, fpos) ==
    IF fpos >= Len(f) THEN <<>>
    ELSE IF f[fpos + 1] = NL THEN <<NL>>
    ELSE <<f[fpos + 1]>> \o ReadLine(f, fpos + 1)

\* the loop over the lines of the temp file: the last line whose lower-cased,
\* right-stripped text ends with "; serial", and the offset at which it starts
RECURSIVE ScanSerial(_, _, _)
ScanSerial(f, fpos, found) ==
    LET raw  == ReadLine(f, fpos)
        line == RStrip(raw)
    IN  IF raw = <<>> THEN found
        ELSE ScanSerial(f, fpos + Len(raw),
                        IF EndsWith(Lower(line), SerialTag)
                        THEN [serial |-> line, serialfpos |-> fpos]
                        ELSE found)

NoSerial == [serial |-> <<>>, serialfpos |-> -1]

\* "search backwards for first digit": the greatest index <= start (counted
\* from 0) that holds a digit, or -1 when the loop runs off the line
LastDigitAt(serial, start) ==
    LET hits == {q \in 0..start : IsDigit(serial[q + 1])}
    IN  IF hits = {} THEN -1 ELSE CHOOSE q \in hits : \A r \in hits : r <= q

\* lines 374..402: where the ten digits start in the serial line (from 0)
LocateSerial(f) ==
    LET hit  == ScanSerial(f, 0, NoSerial)
        last == LastDigitAt(hit.serial, Len(hit.serial) - Len(SerialTag))
        p    == last - 9
    IN  IF hit.serialfpos < 0 THEN Raised("NS_Exception")
        ELSE IF last < 0 THEN Raised("NS_Exception")
        ELSE IF p < 0 THEN Raised("NS_Exception")
        ELSE IF ~AllDigits(SubSeq(hit.serial, p + 1, p + 10)) THEN Raised("NS_Exception")
        ELSE Ok([serial |-> hit.serial, serialfpos |-> hit.serialfpos, p |-> p])

IsLeap(y) == (y % 4 = 0 /\ y % 100 # 0) \/ y % 400 = 0

DaysInMonth(y, m) ==
    IF m = 2 THEN (IF IsLeap(y) THEN 29 ELSE 28)
    ELSE IF m \in {4, 6, 9, 11} THEN 30 ELSE 31

\* datetime.datetime.strptime(s, "%Y%m%d").date() of eight digits
ParseDate(s) ==
    LET y == DecInt(SubSeq(s, 1, 4))
        m == DecInt(SubSeq(s, 5, 6))
        d == DecInt(SubSeq(s, 7, 8))
    IN  IF y < 1 \/ m \notin 1..12 THEN Raised("ValueError")
        ELSE IF d \notin 1..DaysInMonth(y, m) THEN Raised("ValueError")
        ELSE Ok([y |-> y, m |-> m, d |-> d])

\* now > dt on dates
DateAfter(a, b) ==
    \/ a.y > b.y
    \/ a.y = b.y /\ a.m > b.m
    \/ a.y = b.y /\ a.m = b.m /\ a.d > b.d

\* dt + datetime.timedelta(days=1)
NextDay(dt) ==
    IF dt.d < DaysInMonth(dt.y, dt.m) THEN [dt EXCEPT !.d = dt.d + 1]
    ELSE IF dt.m < 12 THEN [y |-> dt.y, m |-> dt.m + 1, d |-> 1]
    ELSE [y |-> dt.y + 1, m |-> 1, d |-> 1]

\* str(n) of a natural number
RECURSIVE IntToStr(_)
IntToStr(n) ==
    LET c == SubSeq(<<"0","1","2","3","4","5","6","7","8","9">>, (n % 10) + 1, (n % 10) + 1)
    IN  IF n < 10 THEN c ELSE IntToStr(n \div 10) \o c

\* s.zfill(width)
ZFill(s, width) == [k \in 1..(width - Len(s)) |-> "0"] \o s

\* dt.strftime("%Y%m%d"): the C library pads month and day, not the year
FormatDate(dt) == IntToStr(dt.y) \o ZFill(IntToStr(dt.m), 2) \o ZFill(IntToStr(dt.d), 2)

\* the advance rule with the roll-over one sequence number late
AdvanceSerialLate(dt, seq, now) ==
    IF DateAfter(now, dt) THEN [dt |-> now, seq |-> 0]
    ELSE IF seq > 99 THEN [dt |-> NextDay(dt), seq |-> 0]
    ELSE [dt |-> dt, seq |-> seq + 1]

\* the advance rule with a roll-over that stays on the day of the serial
AdvanceSerialSameDay(dt, seq, now) ==
    IF DateAfter(now, dt) THEN [dt |-> now, seq |-> 0]
    ELSE IF seq > 98 THEN [dt |-> dt, seq |-> 0]
    ELSE [dt |-> dt, seq |-> seq + 1]

\* lines 410..422: the date and sequence number of the new serial
AdvanceSerial(dt, seq, now) ==
    IF DateAfter(now, dt) THEN [dt |-> now, seq |-> 0]
    ELSE IF seq > 98 THEN [dt |-> NextDay(dt), seq |-> 0]
    ELSE [dt |-> dt, seq |-> seq + 1]

\* lines 404..423: the new serial as text, from the ten digits found
NewSerial(digits, now) ==
    LET dt  == ParseDate(SubSeq(digits, 1, 8))
        seq == DecInt(SubSeq(digits, 9, 10))
        nxt == AdvanceSerial(dt.v, seq, now)
    IN  IF ~dt.ok THEN Raised("NS_Exception")
        ELSE Ok(FormatDate(nxt.dt) \o ZFill(IntToStr(nxt.seq), 2))

\* a seek to the start of the serial line
SeekLineStart(serialfpos, p) == serialfpos

\* f.seek(serialfpos + p)
SeekOffset(serialfpos, p) == serialfpos + p

\* f.write(data) at offset pos of a file opened "r+b"
WriteAt(f, pos, data) ==
    [k \in 1..(IF pos + Len(data) > Len(f) THEN pos + Len(data) ELSE Len(f)) |->
        IF k > pos /\ k <= pos + Len(data) THEN data[k - pos] ELSE f[k]]

\* lines 374..429 on the temp copy: the patched file, or the exception
PatchSerial(f, now) ==
    LET loc == LocateSerial(f)
        new == NewSerial(SubSeq(loc.v.serial, loc.v.p + 1, loc.v.p + 10), now)
    IN  IF ~loc.ok THEN loc
        ELSE IF ~new.ok THEN new
        ELSE Ok(WriteAt(f, SeekOffset(loc.v.serialfpos, loc.v.p), new.v))

-----------------------------------------------------------------------------
(* Zone and Zones (dnsmgr_util.py) *)

\* prefix=None of a forward zone
NoPrefix == [addr |-> <<>>, prefixlen |-> 0]

\* Zone.__init__
NewZone(name, typ, prefix) ==
    [zone |-> name, typ |-> typ, prefix |-> prefix, records |-> EmptyMap]

\* Zones.__init__
NewZones ==
    [zones |-> <<>>, reverse4 |-> <<>>, reverse6 |-> <<>>,
     lpm4 |-> NewTrie, lpm6 |-> NewTrie]

\* the list with x inserted behind the first n elements
InsertAt(s, n, x) == SubSeq(s, 1, n) \o <<x>> \o SubSeq(s, n + 1, Len(s))

\* Zones.add_zone: tmp = self.zones + [a]; tmp.sort(key=len(zone)), a stable sort
ZonesAddZone(zs, name) ==
    LET n == Cardinality({k \in 1..Len(zs.zones) : Len(zs.zones[k].zone) <= Len(name)})
    IN  Ok([zs EXCEPT !.zones = InsertAt(zs.zones, n, NewZone(name, "forward", NoPrefix))])

\* the labels of a reverse zone name, most significant first, padded with "0"
PadLabels(labels, width) ==
    Reverse(labels) \o [k \in 1..(width - Len(labels)) |-> <<"0">>]

\* ipaddress.IPv4Network accepts the dotted quad: every label a number 0..255
ValidOctets(labels) ==
    \A k \in 1..Len(labels) : DecInt(labels[k]) \in 0..255

\* Zones.add_zone_reverse4; raises when the name is rejected
ZonesAddZoneReverse4(zs, zonename) ==
    LET tmp       == Split(SubSeq(zonename, 1, Len(zonename) - 13), ".")
        prefixlen == 8 * Len(tmp)
        quad      == PadLabels(tmp, 4)
        prefix    == [addr |-> [k \in 1..4 |-> DecInt(quad[k])], prefixlen |-> prefixlen]
    IN  IF ~EndsWith(zonename, SuffixArpa4) THEN Raised("ValueError")
        ELSE IF Len(tmp) > 3 THEN Raised("ValueError")
        ELSE IF ~ValidOctets(tmp) THEN Raised("ValueError")
        ELSE Ok([zs EXCEPT !.reverse4 = Append(@, NewZone(zonename, "reverse4", prefix))])

\* the exploded form writes every hexadecimal digit in lower case
LowerHex(c) ==
    CASE c = "A" -> "a" [] c = "B" -> "b" [] c = "C" -> "c"
      [] c = "D" -> "d" [] c = "E" -> "e" [] c = "F" -> "f" [] OTHER -> c

\* ipaddress.IPv6Network accepts the groups: every label one hexadecimal digit
ValidNibbles(labels) ==
    \A k \in 1..Len(labels) : Len(labels[k]) = 1 /\ HexVal(labels[k][1]) >= 0

\* Zones.add_zone_reverse6; raises when the name is rejected
ZonesAddZoneReverse6(zs, zonename) ==
    LET tmp       == Split(SubSeq(zonename, 1, Len(zonename) - 9), ".")
        prefixlen == 4 * Len(tmp)
        nibs      == PadLabels(tmp, 32)
        prefix    == [addr |-> [k \in 1..32 |-> LowerHex(nibs[k][1])], prefixlen |-> prefixlen]
    IN  IF ~EndsWith(zonename, SuffixArpa6) THEN Raised("ValueError")
        ELSE IF Len(tmp) > 31 THEN Raised("ValueError")
        ELSE IF ~ValidNibbles(tmp) THEN Raised("ValueError")
        ELSE Ok([zs EXCEPT !.reverse6 = Append(@, NewZone(zonename, "reverse6", prefix))])

\* the branch of DNS_Mgr.rebuild that picks the kind of a master zone
AddMasterZone(zs, name) ==
    IF EndsWith(name, SuffixArpa4) THEN ZonesAddZoneReverse4(zs, name)
    ELSE IF EndsWith(name, SuffixArpa6) THEN ZonesAddZoneReverse6(zs, name)
    ELSE ZonesAddZone(zs, name)

\* the place x takes in a list kept in descending prefixlen order: behind
\* every element that is at least as long (the sort is stable)
SortedPlace(s, x) ==
    Cardinality({k \in 1..Len(s) : s[k].prefix.prefixlen >= x.prefix.prefixlen})

\* list.sort(key=lambda x: x.prefix.prefixlen, reverse=True)
RECURSIVE SortByPrefixlenDesc(_)
SortByPrefixlenDesc(s) ==
    IF s = <<>> THEN <<>>
    ELSE LET front == SortByPrefixlenDesc(SubSeq(s, 1, Len(s) - 1))
             x     == s[Len(s)]
         IN  InsertAt(front, SortedPlace(front, x), x)

\* for zone in self.reverse4: self.lpm4.add_prefix(zone.prefix, zone)
RECURSIVE BuildLpm4(_, _)
BuildLpm4(t, zs4) ==
    IF zs4 = <<>> THEN t
    ELSE BuildLpm4(Mtrie4AddPrefix(t, Head(zs4).prefix, Head(zs4).zone), Tail(zs4))

\* for zone in self.reverse6: self.lpm6.add_prefix(zone.prefix, zone)
RECURSIVE BuildLpm6(_, _)
BuildLpm6(t, zs6) ==
    IF zs6 = <<>> THEN Ok(t)
    ELSE LET t2 == Mtrie6AddPrefix(t, Head(zs6).prefix, Head(zs6).zone)
         IN  IF ~t2.ok THEN t2 ELSE BuildLpm6(t2.v, Tail(zs6))

\* Zones.init_search; raises when an add_prefix raises
ZonesInitSearch(zs) ==
    LET r4 == SortByPrefixlenDesc(zs.reverse4)
        r6 == SortByPrefixlenDesc(zs.reverse6)
        t6 == BuildLpm6(NewTrie, r6)
    IN  IF ~t6.ok THEN t6
        ELSE Ok([zs EXCEPT !.reverse4 = r4, !.reverse6 = r6,
                           !.lpm4 = BuildLpm4(NewTrie, r4), !.lpm6 = t6.v])

-----------------------------------------------------------------------------
(* The index on its own: reverse zones are added, the tries are built and  *)
(* addresses are looked up.                                                *)

MaxRevZones == 2

In4(labels) == labels \o SuffixArpa4
In6(labels) == labels \o SuffixArpa6

RevNames4 ==
    { In4(<<"1","9","2">>),
      In4(<<"0",".","1","9","2">>),
      In4(<<"2",".","0",".","1","9","2">>),
      In4(<<"3",".","0",".","1","9","2">>),
      In4(<<"1","0">>),
      In4(<<"5",".","2",".","0",".","1","9","2">>) }

RevNames6 ==
    { In6(<<"2">>),
      In6(<<"1",".","0",".","0",".","2">>),
      In6(<<"8",".","b",".","d",".","0",".","1",".","0",".","0",".","2">>),
      In6(<<"9",".","b",".","d",".","0",".","1",".","0",".","0",".","2">>),
      In6(<<"a",".","b",".","d",".","0",".","1",".","0",".","0",".","2">>),
      In6(<<"0",".","0",".","8",".","b",".","d",".","0",".","1",".","0",".","0",".","2">>) }

RevNames == RevNames4 \cup RevNames6

\* lists of distinct zone names, as a name-server configuration yields them
RECURSIVE DistinctSeqs(_, _)
DistinctSeqs(S, n) ==
    IF n = 0 THEN {<<>>}
    ELSE LET shorter == DistinctSeqs(S, n - 1)
         IN  shorter \cup
             UNION { {Append(s, x) : x \in S \ {s[k] : k \in DOMAIN s}} :
                     s \in {t \in shorter : Len(t) = n - 1} }

Addrs4 ==
    { <<192,0,2,5>>, <<192,0,3,5>>, <<192,0,4,1>>, <<192,1,0,1>>,
      <<10,1,2,3>>, <<11,0,0,1>>, <<193,0,2,5>>, <<2,0,192,5>> }

\* exploded IPv6 addresses without the colons: a head and zeros up to 32 digits
Addr6(head) == head \o [k \in 1..(32 - Len(head)) |-> "0"]

Addrs6 ==
    { Addr6(<<"2","0","0","1","0","d","b","8">>), Addr6(<<"2","0","0","1","0","d","b","9">>),
      Addr6(<<"2","0","0","1","0","d","b","a">>), Addr6(<<"2","0","0","1","0","d","b","7">>),
      Addr6(<<"2","0","0","1","0","d","b","8","0","0","0","1">>), Addr6(<<"2","0","0","1","0","d","b","8","0","0","1">>),
      Addr6(<<"2","0","0","1","f","f","f","f">>), Addr6(<<"2","a","0","1">>),
      Addr6(<<"3","0","0","1">>), Addr6(<<"a","0","0","1">>) }

NoLookup == [fam |-> 0, addr |-> <<>>, res |-> NoObj]

\* the variables of the commands, for the specifications that run none
NoCommands ==
    /\ conf = <<>> /\ ignorezones = {} /\ remote = FALSE /\ nszones = <<>>
    /\ lfs = EmptyMap /\ rfs = EmptyMap
    /\ pc = "idle" /\ mode = "none" /\ cur = <<>> /\ todo = <<>> /\ records = <<>>
    /\ today = NoDate /\ runs = 0 /\ faults = 0
    /\ log = <<>> /\ failed = "" /\ srv0 = EmptyMap
    /\ prev = NoPrev /\ given = NoShape
    /\ NoParse
    /\ NoLoad
    /\ NoMore

InitLpm ==
    /\ zones = NewZones
    /\ pend \in DistinctSeqs(RevNames, MaxRevZones)
    /\ pcL = "add"
    /\ lk = NoLookup
    /\ NoCommands

\* one turn of the loop of DNS_Mgr.rebuild over the discovered master zones
AddZone ==
    /\ pcL = "add"
    /\ pend # <<>>
    /\ LET zs == AddMasterZone(zones, Head(pend))
       IN  IF ~zs.ok
           THEN pcL' = "failed" /\ UNCHANGED zones
           ELSE zones' = zs.v /\ UNCHANGED pcL
    /\ pend' = Tail(pend)
    /\ UNCHANGED <<lk, cfgVars, moreVars, parseVars, loadVars, fileVars, runVars>>

\* self.zones.init_search()
InitSearch ==
    /\ pcL = "add"
    /\ pend = <<>>
    /\ LET zs == ZonesInitSearch(zones)
       IN  IF ~zs.ok
           THEN pcL' = "failed" /\ UNCHANGED zones
           ELSE zones' = zs.v /\ pcL' = "ready"
    /\ UNCHANGED <<pend, lk, cfgVars, moreVars, parseVars, loadVars, fileVars, runVars>>

\* self.lpm4.lookup(str(rr.name))
Lookup4 ==
    /\ pcL = "ready"
    /\ \E a \in Addrs4 :
         lk' = [fam |-> 4, addr |-> a, res |-> Mtrie4Lookup(zones.lpm4, a)]
    /\ UNCHANGED <<zones, pend, pcL, cfgVars, moreVars, parseVars, loadVars, fileVars, runVars>>

\* self.lpm6.lookup(rr.name)
Lookup6 ==
    /\ pcL = "ready"
    /\ \E a \in Addrs6 :
         lk' = [fam |-> 6, addr |-> a, res |-> Mtrie6Lookup(zones.lpm6, a)]
    /\ UNCHANGED <<zones, pend, pcL, cfgVars, moreVars, parseVars, loadVars, fileVars, runVars>>

NextLpm == AddZone \/ InitSearch \/ Lookup4 \/ Lookup6

SpecLpm == InitLpm /\ [][NextLpm]_vars

-----------------------------------------------------------------------------
(* Longest prefix match, stated without the tries *)

\* the reverse zones of the family of the last lookup
FamilyZones == IF lk.fam = 4 THEN zones.reverse4 ELSE zones.reverse6

\* the prefix of zone z contains the address: its leading strides agree
Covers(z, fam, addr) ==
    \A k \in 1..(z.prefix.prefixlen \div (IF fam = 4 THEN 8 ELSE 4)) :
        z.prefix.addr[k] = addr[k]

Covering == {k \in 1..Len(FamilyZones) : Covers(FamilyZones[k], lk.fam, lk.addr)}

MostSpecific ==
    CHOOSE k \in Covering :
        \A j \in Covering :
            FamilyZones[j].prefix.prefixlen <= FamilyZones[k].prefix.prefixlen

\* C6: once the index is built, the lookup of an address that lies inside
\* the prefix of at least one reverse zone returns the zone with the longest
\* prefix containing it.
C6_LookupReturnsLongestPrefix ==
    (lk.fam # 0 /\ Covering # {}) => lk.res = FamilyZones[MostSpecific].zone

\* C7: once the index is built, the lookup of an address that lies outside
\* the prefix of every reverse zone returns none.
C7_LookupOutsideReturnsNone ==
    (lk.fam # 0 /\ Covering = {}) => lk.res = NoObj

-----------------------------------------------------------------------------
(* Records and resource records (dnsmgr.py, file_loader.py) *)

\* chr(0), the separator inside the key of a record
NUL == "NUL"

\* the characters of names, types and addresses in the order of their codes
AsciiOrder ==
    <<NUL, " ", "-", ".", "0", "1", "2", "3", "4", "5", "6", "7", "8", "9", ":", "@",
      "A", "B", "C", "D", "E", "F", "G", "H", "I", "J", "K", "L", "M",
      "N", "O", "P", "Q", "R", "S", "T", "U", "V", "W", "X", "Y", "Z", "_",
      "a", "b", "c", "d", "e", "f", "g", "h", "i", "j", "k", "l", "m",
      "n", "o", "p", "q", "r", "s", "t", "u", "v", "w", "x", "y", "z">>

Ord(c) == CHOOSE k \in 1..Len(AsciiOrder) : AsciiOrder[k] = c

\* a < b on str
RECURSIVE StrLess(_, _)
StrLess(a, b) ==
    IF b = <<>> THEN FALSE
    ELSE IF a = <<>> THEN TRUE
    ELSE IF Head(a) = Head(b) THEN StrLess(Tail(a), Tail(b))
    ELSE Ord(Head(a)) < Ord(Head(b))

\* keys = list(d.keys()); keys.sort()
RECURSIVE SortedKeys(_)
SortedKeys(S) ==
    IF S = {} THEN <<>>
    ELSE LET m == CHOOSE x \in S : \A y \in S \ {x} : StrLess(x, y)
         IN  <<m>> \o SortedKeys(S \ {m})

\* sep.join(parts)
RECURSIVE Join(_, _)
Join(parts, sep) ==
    IF parts = <<>> THEN <<>>
    ELSE IF Len(parts) = 1 THEN parts[1]
    ELSE parts[1] \o sep \o Join(Tail(parts), sep)

UpperChar(c) ==
    IF \E i \in 1..Len(LowerAlpha) : LowerAlpha[i] = c
    THEN UpperAlpha[CHOOSE i \in 1..Len(LowerAlpha) : LowerAlpha[i] = c]
    ELSE c

\* s.upper()
Upper(s) == [k \in 1..Len(s) |-> UpperChar(s[k])]

\* a value of a record or a name of a resource record: a str, an
\* ipaddress.IPv4Address or an ipaddress.IPv6Address (its exploded digits and
\* the text str() gives)
Str(s) == [fam |-> 0, quad |-> <<>>, nibs |-> <<>>, text |-> s]
IPv4Address(quad) == [fam |-> 4, quad |-> quad, nibs |-> <<>>, text |-> <<>>]
IPv6Address(nibs, text) == [fam |-> 6, quad |-> <<>>, nibs |-> nibs, text |-> text]

\* str(x)
StrOf(x) ==
    IF x.fam = 4 THEN Join([k \in 1..4 |-> IntToStr(x.quad[k])], <<".">>) ELSE x.text

TypA == <<"A">>
TypAAAA == <<"A","A","A","A">>
TypCNAME == <<"C","N","A","M","E">>
TypPTR == <<"P","T","R">>

\* Loader._get_boolean on a value it accepts
GetBoolean(val) ==
    Lower(val) \in {<<"o","n">>, <<"t","r","u","e">>, <<"1">>, <<"t">>, <<"y","e","s">>}

\* no "reverse=" option at the end of the line
NoOption == <<>>

\* Loader.load: the reverse flag of a declaration, from its option or from
\* the default of its address family; None for the other types
LoaderReverse(option, typ, reverse4, reverse6) ==
    IF option # NoOption THEN GetBoolean(option)
    ELSE IF typ = TypA THEN reverse4
    ELSE IF typ = TypAAAA THEN reverse6
    ELSE FALSE

\* Record.__init__, with the reverse flag the loader hands over
Record(domain, ttl, name, typ, value, reverse) ==
    [domain |-> domain, ttl |-> ttl, name |-> name, typ |-> typ, value |-> <<value>>,
     fqdn |-> name \o <<".">> \o domain, reverse |-> reverse]

\* a record of a known key takes the place of the values held so far
RecordsAddKeepLast(recs, record) ==
    LET key == record.fqdn \o <<NUL>> \o record.typ
    IN  IF key \in DOMAIN recs
        THEN [recs EXCEPT ![key].value = record.value]
        ELSE recs @@ (key :> record)

\* Records._add
RecordsAdd(recs, record) ==
    LET key == record.fqdn \o <<NUL>> \o record.typ
    IN  IF key \in DOMAIN recs
        THEN [recs EXCEPT ![key].value = @ \o record.value]
        ELSE recs @@ (key :> record)

\* Records.__iter__
RecordsIter(recs) ==
    LET keys == SortedKeys(DOMAIN recs)
    IN  [k \in 1..Len(keys) |-> recs[keys[k]]]

\* RR.__init__
RR(domain, ttl, name, typ, value) ==
    [domain |-> domain, ttl |-> ttl, name |-> name, typ |-> Upper(typ), value |-> value]

\* a resource record of a known key is put in front of the list
ZoneAddRRFirst(zone, rr) ==
    LET key == StrOf(rr.name) \o rr.domain
    IN  IF key \in DOMAIN zone.records
        THEN [zone EXCEPT !.records[key] = <<rr>> \o @]
        ELSE [zone EXCEPT !.records = @ @@ (key :> <<rr>>)]

\* Zone.add_rr
ZoneAddRR(zone, rr) ==
    LET key == StrOf(rr.name) \o rr.domain
    IN  IF key \in DOMAIN zone.records
        THEN [zone EXCEPT !.records[key] = Append(@, rr)]
        ELSE [zone EXCEPT !.records = @ @@ (key :> <<rr>>)]

\* the zone object an index holds: its place in the list, 0 for None
PlaceOf(zlist, name) ==
    IF \E k \in 1..Len(zlist) : zlist[k].zone = name
    THEN CHOOSE k \in 1..Len(zlist) : zlist[k].zone = name
    ELSE 0

\* Zones.add_rr
ZonesAddRR(zs, rr) ==
    LET hits == {k \in 1..Len(zs.zones) : zs.zones[k].zone = rr.domain}
        k    == CHOOSE j \in hits : \A h \in hits : j <= h
    IN  IF hits = {} THEN zs
        ELSE [zs EXCEPT !.zones[k] = ZoneAddRR(@, rr)]

\* addr.split(".") and int() of every part
ParseQuad(s) == LET ip == Split(s, ".") IN [k \in 1..Len(ip) |-> DecInt(ip[k])]

\* Zones.add_rr_reverse4
ZonesAddRRReverse4(zs, rr) ==
    LET k == PlaceOf(zs.reverse4, Mtrie4Lookup(zs.lpm4, ParseQuad(StrOf(rr.name))))
    IN  IF k = 0 THEN zs
        ELSE [zs EXCEPT !.reverse4[k] = ZoneAddRR(@, rr)]

\* Zones.add_rr_reverse6
ZonesAddRRReverse6(zs, rr) ==
    LET k == PlaceOf(zs.reverse6, Mtrie6Lookup(zs.lpm6, rr.name.nibs))
    IN  IF k = 0 THEN zs
        ELSE [zs EXCEPT !.reverse6[k] = ZoneAddRR(@, rr)]

\* DNS_Mgr.rebuild: the body of "for value in record.value"
RouteValue(zs, record, value) ==
    LET fwd == RR(record.domain, record.ttl, Str(record.name), record.typ, value)
        ptr == RR(record.domain, record.ttl, value, TypPTR, Str(record.name))
    IN  IF record.typ = TypA THEN ZonesAddRRReverse4(ZonesAddRR(zs, fwd), ptr)
        ELSE IF record.typ = TypAAAA THEN ZonesAddRRReverse6(ZonesAddRR(zs, fwd), ptr)
        ELSE ZonesAddRR(zs, fwd)

RECURSIVE RouteValues(_, _, _)
RouteValues(zs, record, values) ==
    IF values = <<>> THEN zs
    ELSE RouteValues(RouteValue(zs, record, Head(values)), record, Tail(values))

\* DNS_Mgr.rebuild: "for record in records"
RECURSIVE RouteRecords(_, _)
RouteRecords(zs, recs) ==
    IF recs = <<>> THEN zs
    ELSE RouteRecords(RouteValues(zs, Head(recs), Head(recs).value), Tail(recs))

\* ZoneInfo
ZoneInfo(name, typ) == [name |-> name, typ |-> typ]

\* NS_Manager.getZones: the zone statements whose name is not ignored
GetZones(cf, ign) == SelectSeq(cf, LAMBDA zi : zi.name \notin ign)

\* the loop over zonesinfo without the test of the zone type
RECURSIVE AddZonesAnyType(_, _)
AddZonesAnyType(zs, zis) ==
    IF zis = <<>> THEN Ok(zs)
    ELSE LET r == AddMasterZone(zs, Head(zis).name)
         IN  IF ~r.ok THEN r ELSE AddZonesAnyType(r.v, Tail(zis))

\* DNS_Mgr.rebuild: the loop over zonesinfo, master zones only
RECURSIVE AddZones(_, _)
AddZones(zs, zis) ==
    IF zis = <<>> THEN Ok(zs)
    ELSE IF Head(zis).typ # "master" THEN AddZones(zs, Tail(zis))
    ELSE LET r == AddMasterZone(zs, Head(zis).name)
         IN  IF ~r.ok THEN r ELSE AddZones(r.v, Tail(zis))

\* DNS_Mgr.rebuild up to the loop that saves: the Zones object filled with
\* the resource records, or the exception that ends the command
BuildZones(zis, recs) ==
    LET added == AddZones(NewZones, zis)
        idx   == ZonesInitSearch(added.v)
    IN  IF ~added.ok THEN added
        ELSE IF ~idx.ok THEN idx
        ELSE Ok(RouteRecords(idx.v, RecordsIter(recs)))

\* Zones.__iter__
ZonesIter(zs) == zs.zones \o zs.reverse4 \o zs.reverse6

-----------------------------------------------------------------------------
(* NS_Manager.saveZone: the text of an include-file *)

\* NS_Manager.includedir
IncludeDir == <<"/","e","t","c","/","b","i","n","d","/","p","r","i","m","a","r","y","/","i","n","c","l","u","d","e">>

\* "%-Ns" % s
PadRight(s, width) == s \o [k \in 1..(width - Len(s)) |-> " "]

\* "%Ns" % s
PadLeft(s, width) == [k \in 1..(width - Len(s)) |-> " "] \o s

\* name[:st] for a negative st
CutTail(name, st) == SubSeq(name, 1, Len(name) + st)

\* ipv4_addr_to_reverse
Ipv4AddrToReverse(addr) == Join(Reverse(Split(addr, ".")), <<".">>)

\* ipv6_addr_to_reverse
Ipv6AddrToReverse(addr) ==
    Join(Reverse([k \in 1..Len(addr.nibs) |-> <<addr.nibs[k]>>]), <<".">>)

\* a preamble that carries the number of the run
RenderHeadStamped(zone) ==
    <<";"," ","R","u","n"," ">> \o IntToStr(runs) \o <<NL>> \o
    <<"$","O","R","I","G","I","N"," ">> \o zone.zone \o <<".",NL,NL>>

\* the lines saveZone writes before the resource records
RenderHead(zone) ==
    <<";",NL>> \o
    <<";"," ","F","i","l","e"," ","g","e","n","e","r","a","t","e","d"," ","b","y"," ","D","n","s","N","g","r",NL>> \o
    <<";"," ","D","o"," ","n","o","t"," ","e","d","i","t",","," ","c","h","a","n","g","e","s"," ","w","i","l","l"," ","b","e"," ","o","v","e","r","w","r","i","t","t","e","n",NL>> \o
    <<";",NL>> \o
    <<";"," ","Z","o","n","e","f","i","l","e"," ",":"," ">> \o IncludeDir \o <<"/">> \o zone.zone \o <<NL>> \o
    <<";"," ","R","e","c","o","r","d","s"," "," ",":"," ">> \o IntToStr(Cardinality(DOMAIN zone.records)) \o <<NL>> \o
    <<";",NL,NL>> \o
    <<"$","O","R","I","G","I","N"," ">> \o zone.zone \o <<".",NL,NL>>

\* one line of a forward zone
RenderForwardRR(rr) ==
    PadRight(StrOf(rr.name), 30) \o <<" "," ">> \o PadLeft(rr.ttl, 5) \o <<" "," ">> \o
    PadRight(rr.typ, 8) \o <<" "," "," "," ">> \o StrOf(rr.value) \o <<NL>>

\* one line of a reverse zone: the owner name is cut by the zone name
RenderReverseRR(zone, rr) ==
    LET st   == -Len(zone.zone) - 1
        full == IF zone.typ = "reverse4"
                THEN Ipv4AddrToReverse(StrOf(rr.name)) \o <<".","i","n","-","a","d","d","r",".","a","r","p","a">>
                ELSE Ipv6AddrToReverse(rr.name) \o <<".","i","p","6",".","a","r","p","a">>
        name == CutTail(full, st)
    IN  PadRight(name, IF zone.typ = "reverse4" THEN 30 ELSE 50) \o <<" "," ">> \o
        PadLeft(rr.ttl, 5) \o <<" "," ">> \o rr.typ \o <<" "," "," "," ">> \o
        StrOf(rr.value) \o <<".">> \o rr.domain \o <<".",NL>>

RenderRR(zone, rr) ==
    IF zone.typ = "forward" THEN RenderForwardRR(rr) ELSE RenderReverseRR(zone, rr)

RECURSIVE RenderRRList(_, _)
RenderRRList(zone, rrlist) ==
    IF rrlist = <<>> THEN <<>>
    ELSE RenderRR(zone, Head(rrlist)) \o RenderRRList(zone, Tail(rrlist))

\* "for rrlist in zone": the lists in the order of their sorted keys
RECURSIVE RenderKeys(_, _)
RenderKeys(zone, keys) ==
    IF keys = <<>> THEN <<>>
    ELSE RenderRRList(zone, zone.records[Head(keys)]) \o RenderKeys(zone, Tail(keys))

\* the content of the temp file saveZone writes for a zone
Render(zone) == RenderHead(zone) \o RenderKeys(zone, SortedKeys(DOMAIN zone.records))

-----------------------------------------------------------------------------
(* Files and commands (dnsmgr_isc_bind.py) *)

MaxRuns == 2
MaxFaults == 1

\* zoneinfo.file: the zone file of a zone
ZonePath(name) == <<"zone", name>>

\* "%s/%s" % (self.includedir, zonefile): the include-file of a zone
IncludePath(name) == <<"include", name>>

\* the temp file of a zone is the zone file itself
TmpPathInPlace(name) == ZonePath(name)

\* "%s/%s" % (self.tmpdir, zoneinfo.name): the temp file of a zone
TmpPath(name) == <<"tmp", name>>

File(data) == [exists |-> TRUE, data |-> data]

\* the names of the zone statements
ZoneNames(cf) == {cf[k].name : k \in 1..Len(cf)}

\* self.zones[name]
ZoneInfoOf(zis, name) == zis[CHOOSE k \in 1..Len(zis) : zis[k].name = name]

\* every path the commands can name
Paths(cf) ==
    UNION {{ZonePath(n), IncludePath(n), TmpPath(n)} : n \in ZoneNames(cf)}

\* the files of the name server: FileMgr(remote=self.remote, ...)
Srv == IF remote THEN rfs ELSE lfs

\* a write of a file of the name server
SrvWrite(f) ==
    IF remote THEN rfs' = f /\ UNCHANGED lfs ELSE lfs' = f /\ UNCHANGED rfs

\* the outcomes of a subprocess: "ok", or one of the given faults while the
\* fault budget lasts
Outcomes(faultset) == {"ok"} \cup (IF faults < MaxFaults THEN faultset ELSE {})

Charge(o) == faults' = IF o = "ok" THEN faults ELSE faults + 1

\* a copy that arrives damaged: the last byte is lost
Damaged(data) == SubSeq(data, 1, Len(data) - 1)

\* FileMgr.compare: the sha256 checksums of two files are equal
Compare(a, b) == a.data = b.data

\* an exception leaves the command
Abort(step) ==
    /\ pc' = "idle"
    /\ failed' = step
    /\ todo' = <<>>

\* saveZone returns: rebuild takes the next zone; the serial command is over
Return ==
    /\ UNCHANGED failed
    /\ IF mode = "rebuild" /\ Len(todo) > 1
       THEN pc' = "save_render" /\ todo' = Tail(todo)
       ELSE pc' = "idle" /\ todo' = <<>>

\* what every command records when it starts
Start(m) ==
    /\ pc = "idle"
    /\ runs < MaxRuns
    /\ runs' = runs + 1
    /\ mode' = m
    /\ log' = <<>>
    /\ srv0' = Srv
    /\ prev' = [mode |-> mode, failed |-> failed, records |-> records, log |-> log]

\* increaseSoaSerial, lines 358..362: only a master zone has a serial to edit
SerCheckMaster ==
    /\ pc = "ser_check"
    /\ IF ZoneInfoOf(nszones, cur).typ # "master"
       THEN Abort("type")
       ELSE pc' = "ser_fetch" /\ UNCHANGED <<failed, todo>>
    /\ UNCHANGED <<zones, lpmVars, cfgVars, moreVars, parseVars, loadVars, fileVars, nszones, mode, cur, records,
                   runs, faults, log, srv0, prev>>

\* lines 365..371: the temp file is opened for writing, the zone file is
\* copied over it and the checksums of the two are compared
SerFetch ==
    /\ pc = "ser_fetch"
    /\ \E o \in Outcomes({"raise", "corrupt"}) :
        /\ Charge(o)
        /\ CASE o = "ok" ->
                  /\ lfs' = [lfs EXCEPT ![TmpPath(cur)] = File(Srv[ZonePath(cur)].data)]
                  /\ pc' = "ser_patch" /\ UNCHANGED <<failed, todo>>
             [] o = "raise" ->
                  /\ lfs' = [lfs EXCEPT ![TmpPath(cur)] = File(<<>>)]
                  /\ Abort("fetch")
             [] o = "corrupt" ->
                  /\ lfs' = [lfs EXCEPT ![TmpPath(cur)] =
                                            File(Damaged(Srv[ZonePath(cur)].data))]
                  /\ Abort("checksum")
    /\ UNCHANGED <<zones, lpmVars, cfgVars, moreVars, parseVars, loadVars, rfs, nszones, mode, cur, records,
                   runs, log, srv0, prev>>

\* lines 374..429: the serial is located, validated, advanced and written
\* into the temp file
SerPatch ==
    /\ pc = "ser_patch"
    /\ LET f == lfs[TmpPath(cur)].data
           r == PatchSerial(f, today)
       IN  IF r.ok
           THEN /\ lfs' = [lfs EXCEPT ![TmpPath(cur)] = File(r.v)]
                /\ pc' = IF remote THEN "ser_push" ELSE "ser_size"
                /\ UNCHANGED <<failed, todo>>
           ELSE /\ Abort(IF LocateSerial(f).ok THEN "date" ELSE "locate")
                /\ UNCHANGED lfs
    /\ UNCHANGED <<zones, lpmVars, cfgVars, moreVars, parseVars, loadVars, rfs, nszones, mode, cur, records,
                   runs, faults, log, srv0, prev>>

\* lines 432..440: the remote temp file is opened for writing, the patched
\* file is copied to the name server and the checksums are compared
SerPush ==
    /\ pc = "ser_push"
    /\ \E o \in Outcomes({"raise", "corrupt"}) :
        /\ Charge(o)
        /\ CASE o = "ok" ->
                  /\ rfs' = [rfs EXCEPT ![TmpPath(cur)] = lfs[TmpPath(cur)]]
                  /\ pc' = "ser_size" /\ UNCHANGED <<failed, todo>>
             [] o = "raise" ->
                  /\ rfs' = [rfs EXCEPT ![TmpPath(cur)] = File(<<>>)]
                  /\ Abort("push")
             [] o = "corrupt" ->
                  /\ rfs' = [rfs EXCEPT ![TmpPath(cur)] =
                                            File(Damaged(lfs[TmpPath(cur)].data))]
                  /\ Abort("push")
    /\ UNCHANGED <<zones, lpmVars, cfgVars, moreVars, parseVars, loadVars, lfs, nszones, mode, cur, records,
                   runs, log, srv0, prev>>

\* lines 444..447: the patched file and the zone file must have one size
SerSize ==
    /\ pc = "ser_size"
    /\ \E o \in Outcomes({"raise"}) :
        /\ Charge(o)
        /\ IF o = "raise" THEN Abort("size")
           ELSE IF Len(Srv[TmpPath(cur)].data) # Len(Srv[ZonePath(cur)].data)
           THEN Abort("size")
           ELSE pc' = "ser_install" /\ UNCHANGED <<failed, todo>>
    /\ UNCHANGED <<zones, lpmVars, cfgVars, moreVars, parseVars, loadVars, fileVars, nszones, mode, cur, records,
                   runs, log, srv0, prev>>

\* lines 450..451: cp --force puts the patched file in the place of the zone
\* file; a cp that fails has left the zone file alone or has emptied it
SerInstall ==
    /\ pc = "ser_install"
    /\ \E o \in Outcomes({"raise"}) :
        /\ Charge(o)
        /\ IF o = "ok"
           THEN /\ SrvWrite([Srv EXCEPT ![ZonePath(cur)] = File(Srv[TmpPath(cur)].data)])
                /\ log' = Append(log, <<"serial", cur>>)
                /\ pc' = "ser_reload" /\ UNCHANGED <<failed, todo>>
           ELSE /\ \E left \in {Srv[ZonePath(cur)], File(<<>>)} :
                      SrvWrite([Srv EXCEPT ![ZonePath(cur)] = left])
                /\ UNCHANGED log
                /\ Abort("install")
    /\ UNCHANGED <<zones, lpmVars, cfgVars, moreVars, parseVars, loadVars, nszones, mode, cur, records,
                   runs, srv0, prev>>

\* line 454: the reload command of the zone is run
SerReload ==
    /\ pc = "ser_reload"
    /\ log' = Append(log, <<"reload", cur>>)
    /\ \E o \in Outcomes({"raise"}) :
        /\ Charge(o)
        /\ IF o = "ok" THEN Return ELSE Abort("reload")
    /\ UNCHANGED <<zones, lpmVars, cfgVars, moreVars, parseVars, loadVars, fileVars, nszones, mode, cur, records,
                   runs, srv0, prev>>

\* main of dnsmgr_isc_bind.py, command incsoaserial: the manager it builds
\* has the default, empty ignore set
IncSoaSerialCmd ==
    /\ Start("cli")
    /\ \E name \in ZoneNames(conf) :
        /\ nszones' = GetZones(conf, {})
        /\ cur' = name
    /\ pc' = "ser_check"
    /\ failed' = ""
    /\ UNCHANGED <<zones, lpmVars, cfgVars, moreVars, parseVars, loadVars, fileVars, todo, records, faults>>

-----------------------------------------------------------------------------
(* The Serial Editor on its own: the command incsoaserial on zone files of *)
(* several layouts, serials and dates.                                     *)

ExampleCom == <<"e","x","a","m","p","l","e",".","c","o","m">>
ExampleOrg == <<"e","x","a","m","p","l","e",".","o","r","g">>

SerialConf == <<ZoneInfo(ExampleCom, "master"), ZoneInfo(ExampleOrg, "slave")>>

\* the layouts of the serial line: the bytes before and behind the serial,
\* and how many digits of the serial the file holds
Shapes ==
    { [pre |-> <<"@"," ","S","O","A"," ","(",NL," "," ">>, post |-> <<" ",";"," ","S","e","r","i","a","l",NL,")",NL>>, digits |-> 10],
      [pre |-> <<>>, post |-> <<";"," ","s","e","r","i","a","l"," "," ",NL,")",NL>>, digits |-> 10],
      [pre |-> <<"(",NL," ","2","0","2","0","0","1","0","1","0","0"," ",";"," ","S","e","r","i","a","l",NL>> \o <<TAB>>, post |-> <<TAB>> \o <<";"," ","S","E","R","I","A","L",NL,")",NL>>,
       digits |-> 10],
      [pre |-> <<"(",NL," "," ","1">>, post |-> <<" ",";"," ","S","e","r","i","a","l",NL>>, digits |-> 10],
      [pre |-> <<"(",NL," "," ">>, post |-> <<" ",";"," ","V","e","r","s","i","o","n",NL,")",NL>>, digits |-> 10],
      [pre |-> <<>>, post |-> <<" ",";"," ","7"," ",";"," ","S","e","r","i","a","l",NL>>, digits |-> 10],
      [pre |-> <<"(",NL," "," ">>, post |-> <<" ",";"," ","S","e","r","i","a","l",NL,")",NL>>, digits |-> 9],
      [pre |-> <<"(",NL>>, post |-> <<";"," ","S","e","r","i","a","l",NL>>, digits |-> 0] }

\* the layouts in which increaseSoaSerial finds ten digits
Editable ==
    {s \in Shapes : s.digits = 10 /\ s.post \notin {<<" ",";"," ","V","e","r","s","i","o","n",NL,")",NL>>, <<" ",";"," ","7"," ",";"," ","S","e","r","i","a","l",NL>>}}

Date(y, m, d) == [y |-> y, m |-> m, d |-> d]

SerialDates ==
    { Date(2023, 12, 31), Date(2024, 1, 1), Date(2024, 2, 28), Date(2024, 2, 29),
      Date(2023, 2, 28), Date(2024, 12, 31) }

\* eight digits that are no date
BadDates ==
    { Date(2024, 2, 30), Date(2023, 2, 29), Date(2024, 13, 1), Date(2024, 1, 0),
      Date(0, 1, 1) }

SerialSeqs == {0, 7, 98, 99}

Todays == { Date(2023, 12, 31), Date(2024, 1, 1), Date(2024, 2, 29), Date(2024, 3, 1) }

\* the ten digits YYYYMMDDss
DigitsOf(dt, seq) ==
    ZFill(IntToStr(dt.y), 4) \o ZFill(IntToStr(dt.m), 2) \o ZFill(IntToStr(dt.d), 2)
        \o ZFill(IntToStr(seq), 2)

MkZoneFile(shape, dt, seq) ==
    shape.pre \o SubSeq(DigitsOf(dt, seq), 1, shape.digits) \o shape.post

\* the files of the name server before the first command
ServerFiles(cf, zdata, inc) ==
    [p \in Paths(cf) |->
        IF p[1] = "zone" THEN File(zdata)
        ELSE IF p[1] = "include" THEN inc[p[2]]
        ELSE NoFile]

NoFiles(cf) == [p \in Paths(cf) |-> NoFile]

NoIncludes(cf) == [n \in ZoneNames(cf) |-> NoFile]

\* no command has run, no index is in use
Idle ==
    /\ zones = NewZones /\ pend = <<>> /\ pcL = "off" /\ lk = NoLookup
    /\ nszones = <<>> /\ pc = "idle" /\ mode = "none" /\ cur = <<>> /\ todo = <<>>
    /\ records = EmptyMap /\ runs = 0 /\ faults = 0 /\ log = <<>> /\ failed = ""
    /\ prev = NoPrev
    /\ NoParse
    /\ NoLoad
    /\ NoMore

InitSerial ==
    /\ Idle
    /\ conf = SerialConf
    /\ ignorezones = {}
    /\ remote \in BOOLEAN
    /\ today \in Todays
    /\ given \in Shapes
    /\ \E dt \in SerialDates \cup BadDates, seq \in SerialSeqs :
        /\ dt \in SerialDates \/ seq = 0
        /\ given \in Editable \/ (dt = Date(2024, 1, 1) /\ seq = 7)
        /\ LET files == ServerFiles(conf, MkZoneFile(given, dt, seq), NoIncludes(conf))
           IN  /\ lfs = IF remote THEN NoFiles(conf) ELSE files
               /\ rfs = IF remote THEN files ELSE NoFiles(conf)
               /\ srv0 = files

NextSerial ==
    \/ IncSoaSerialCmd
    \/ SerCheckMaster
    \/ SerFetch
    \/ SerPatch
    \/ SerPush
    \/ SerSize
    \/ SerInstall
    \/ SerReload

SpecSerial == InitSerial /\ [][NextSerial]_vars

-----------------------------------------------------------------------------
(* What the Serial Editor is expected to do, stated on the bytes of the    *)
(* zone file before and after the command.                                 *)

Events == {log[k] : k \in 1..Len(log)}

\* the serial of a zone has been advanced by the running (or last) command
Advanced(name) == <<"serial", name>> \in Events

\* the ten bytes where the zone file of a zone was given its serial
FieldOf(fs, name) ==
    SubSeq(fs[ZonePath(name)].data, Len(given.pre) + 1, Len(given.pre) + 10)

\* the number ten digits spell, and its parts YYYY MM DD ss
NumberOf(field) == DecInt(field)
DateOfNumber(n) == Date(n \div 1000000, (n \div 10000) % 100, (n \div 100) % 100)
SeqOfNumber(n) == n % 100
NumberOn(dt, seq) == dt.y * 1000000 + dt.m * 10000 + dt.d * 100 + seq

MonthLengths == <<31, 28, 31, 30, 31, 30, 31, 31, 30, 31, 30, 31>>

LeapYear(y) == y % 400 = 0 \/ (y % 4 = 0 /\ y % 100 # 0)

IsCalendarDate(dt) ==
    /\ dt.y >= 1
    /\ dt.m \in 1..12
    /\ dt.d >= 1
    /\ dt.d <= MonthLengths[dt.m] + (IF dt.m = 2 /\ LeapYear(dt.y) THEN 1 ELSE 0)

RECURSIVE DaysBeforeMonth(_, _)
DaysBeforeMonth(y, m) ==
    IF m = 1 THEN 0
    ELSE DaysBeforeMonth(y, m - 1) + MonthLengths[m - 1]
         + (IF m - 1 = 2 /\ LeapYear(y) THEN 1 ELSE 0)

\* the days from 0001-01-01 to a calendar date
DayNumber(dt) ==
    365 * (dt.y - 1) + ((dt.y - 1) \div 4) - ((dt.y - 1) \div 100) + ((dt.y - 1) \div 400)
        + DaysBeforeMonth(dt.y, dt.m) + dt.d

\* the advance rule, as a relation between the old serial, today and the new
\* serial
IsAdvanceOf(new, old, now) ==
    IF DayNumber(now) > DayNumber(DateOfNumber(old))
    THEN new = NumberOn(now, 0)
    ELSE IF SeqOfNumber(old) >= 99
    THEN /\ SeqOfNumber(new) = 0
         /\ IsCalendarDate(DateOfNumber(new))
         /\ DayNumber(DateOfNumber(new)) = DayNumber(DateOfNumber(old)) + 1
    ELSE new = old + 1

\* C8: whenever a command has advanced the serial of a zone, the serial the
\* zone file had was a valid date and the serial it has now follows the
\* advance rule: today's date with seq 00 if today is later than the date of
\* the old serial; else the day after that date with seq 00 if its seq was 99
\* or more; else the old serial with seq incremented by one.
C8_AdvanceRule ==
    \A name \in ZoneNames(conf) :
        Advanced(name) =>
            /\ IsCalendarDate(DateOfNumber(NumberOf(FieldOf(srv0, name))))
            /\ IsAdvanceOf(NumberOf(FieldOf(Srv, name)), NumberOf(FieldOf(srv0, name)), today)

\* a serial with seq 99 whose date is not in the past has been advanced
C8_Witness ==
    \E name \in ZoneNames(conf) :
        /\ Advanced(name)
        /\ SeqOfNumber(NumberOf(FieldOf(srv0, name))) = 99
        /\ DateOfNumber(NumberOf(FieldOf(srv0, name))) = today
        /\ SeqOfNumber(NumberOf(FieldOf(Srv, name))) = 0

\* C9: whenever a command has advanced the serial of a zone, the zone file
\* has the length it had, the ten bytes of the serial field are digits, and
\* every byte outside the field is the byte that was there before.
C9_OnlyTenBytesChange ==
    \A name \in ZoneNames(conf) :
        Advanced(name) =>
            LET old == srv0[ZonePath(name)].data
                new == Srv[ZonePath(name)].data
                off == Len(given.pre)
            IN  /\ Len(new) = Len(old)
                /\ AllDigits(FieldOf(Srv, name))
                /\ \A k \in 1..Len(old) : (k <= off \/ k > off + 10) => new[k] = old[k]

\* a serial that starts in the middle of its line has been advanced
C9_Witness ==
    \E name \in ZoneNames(conf) :
        /\ Advanced(name)
        /\ given.pre # <<>>
        /\ FieldOf(Srv, name) # FieldOf(srv0, name)

\* the steps of the Serial Editor that precede the install
StepsBeforeInstall == {"type", "fetch", "checksum", "locate", "date", "push", "size"}

SerialSteps == StepsBeforeInstall \cup {"install", "reload"}

-----------------------------------------------------------------------------
(* The zones and records the reconciliation is run on *)

Localhost == <<"l","o","c","a","l","h","o","s","t">>
Rev4Zone == <<"2",".","0",".","1","9","2",".","i","n","-","a","d","d","r",".","a","r","p","a">>
Rev4TooLong == <<"5",".","2",".","0",".","1","9","2",".","i","n","-","a","d","d","r",".","a","r","p","a">>

\* the zone statements of the configuration: two master zones, a slave zone
\* and a zone that is meant to be ignored; and a configuration with a
\* reverse zone add_zone_reverse4 rejects
MainConf ==
    <<ZoneInfo(ExampleCom, "master"), ZoneInfo(Rev4Zone, "master"),
      ZoneInfo(ExampleOrg, "slave"), ZoneInfo(Localhost, "master")>>

BadConf == <<ZoneInfo(ExampleCom, "master"), ZoneInfo(Rev4TooLong, "master")>>

Confs == {MainConf, BadConf}

\* the zone files: one with a serial line, one without the tag
MainShapes ==
    { [pre |-> <<"@"," ","S","O","A"," ","(",NL," "," ">>, post |-> <<" ",";"," ","S","e","r","i","a","l",NL,")",NL>>, digits |-> 10],
      [pre |-> <<"(",NL," "," ">>, post |-> <<" ",";"," ","V","e","r","s","i","o","n",NL,")",NL>>, digits |-> 10] }

NoTtl == <<>>

\* www A 192.0.2.5
RecWww ==
    Record(ExampleCom, NoTtl, <<"w","w","w">>, TypA, IPv4Address(<<192, 0, 2, 5>>),
           LoaderReverse(NoOption, TypA, TRUE, TRUE))

\* www A 192.0.2.5 ;reverse=off
RecWwwOff ==
    Record(ExampleCom, NoTtl, <<"w","w","w">>, TypA, IPv4Address(<<192, 0, 2, 5>>),
           LoaderReverse(<<"o","f","f">>, TypA, TRUE, TRUE))

\* ftp 300 CNAME www
RecFtp ==
    Record(ExampleCom, <<"3","0","0">>, <<"f","t","p">>, TypCNAME, Str(<<"w","w","w">>),
           LoaderReverse(NoOption, TypCNAME, TRUE, TRUE))

\* mail A 192.0.3.9, an address no reverse zone covers
RecMail ==
    Record(ExampleCom, NoTtl, <<"m","a","i","l">>, TypA, IPv4Address(<<192, 0, 3, 9>>),
           LoaderReverse(NoOption, TypA, TRUE, TRUE))

\* www AAAA 2001:db8::1
RecWww6 ==
    Record(ExampleCom, NoTtl, <<"w","w","w">>, TypAAAA,
           IPv6Address(Addr6(<<"2","0","0","1","0","d","b","8">>), <<"2","0","0","1",":","d","b","8",":",":">>),
           LoaderReverse(NoOption, TypAAAA, TRUE, TRUE))

\* the Records object a loader fills from declarations
RECURSIVE MkRecords(_)
MkRecords(decls) ==
    IF decls = <<>> THEN EmptyMap
    ELSE RecordsAdd(MkRecords(SubSeq(decls, 1, Len(decls) - 1)), decls[Len(decls)])

RecordsWww == MkRecords(<<RecWww, RecFtp>>)
RecordsWwwOff == MkRecords(<<RecWwwOff, RecFtp>>)
RecordsMore == MkRecords(<<RecWww, RecMail, RecWww6>>)

RecordSets == {RecordsWww, RecordsWwwOff, RecordsMore}

-----------------------------------------------------------------------------
(* Reconciliation: DNS_Mgr.rebuild with NS_Manager as its driver *)

\* only a missing include-file is replaced
ReplaceWhenMissing(src, dst) == ~dst.exists

\* every include-file is replaced
ReplaceAlways(src, dst) == TRUE

\* saveZone, lines 575..578: replace when the include-file is missing or
\* differs from the rendered file
Replace(src, dst) == IF dst.exists THEN ~Compare(src, dst) ELSE TRUE

\* the zone object of a name
ZoneObj(zs, name) == ZonesIter(zs)[PlaceOf(ZonesIter(zs), name)]

\* DNS_Mgr.rebuild up to the loop that saves the zones: the zones are
\* discovered, the master zones are added, the index is built and every
\* record is routed
Rebuild ==
    /\ Start("rebuild")
    /\ \E recs \in RecordSets :
        LET zis   == GetZones(conf, ignorezones)
            built == BuildZones(zis, recs)
            names == [k \in 1..Len(ZonesIter(built.v)) |-> ZonesIter(built.v)[k].zone]
        IN  /\ records' = recs
            /\ nszones' = zis
            /\ IF built.ok
               THEN /\ zones' = built.v
                    /\ todo' = names
                    /\ failed' = ""
                    /\ pc' = IF names = <<>> THEN "idle" ELSE "save_render"
               ELSE /\ zones' = NewZones
                    /\ todo' = <<>>
                    /\ failed' = "rebuild"
                    /\ pc' = "idle"
    /\ cur' = <<>>
    /\ UNCHANGED <<lpmVars, cfgVars, moreVars, parseVars, loadVars, fileVars, faults>>

\* saveZone, lines 518..559: the zone is rendered into its temp file
SaveRender ==
    /\ pc = "save_render"
    /\ cur' = Head(todo)
    /\ lfs' = [lfs EXCEPT ![TmpPath(Head(todo))] = File(Render(ZoneObj(zones, Head(todo))))]
    /\ log' = Append(log, <<"render", Head(todo)>>)
    /\ pc' = IF remote THEN "save_push" ELSE "save_compare"
    /\ UNCHANGED <<zones, lpmVars, cfgVars, moreVars, parseVars, loadVars, rfs, nszones, mode, todo, records,
                   runs, faults, failed, srv0, prev>>

\* lines 561..568: the rendered file is copied to the name server and the
\* checksums are compared
SavePush ==
    /\ pc = "save_push"
    /\ \E o \in Outcomes({"raise", "corrupt"}) :
        /\ Charge(o)
        /\ CASE o = "ok" ->
                  /\ rfs' = [rfs EXCEPT ![TmpPath(cur)] = lfs[TmpPath(cur)]]
                  /\ pc' = "save_compare" /\ UNCHANGED <<failed, todo>>
             [] o = "raise" ->
                  /\ UNCHANGED rfs
                  /\ Abort("copy")
             [] o = "corrupt" ->
                  /\ rfs' = [rfs EXCEPT ![TmpPath(cur)] =
                                            File(Damaged(lfs[TmpPath(cur)].data))]
                  /\ Abort("copy")
    /\ UNCHANGED <<zones, lpmVars, cfgVars, moreVars, parseVars, loadVars, lfs, nszones, mode, cur, records,
                   runs, log, srv0, prev>>

\* lines 570..579: the rendered file is compared with the include-file, when
\* there is one
SaveCompare ==
    /\ pc = "save_compare"
    /\ LET src == Srv[TmpPath(cur)]
           dst == Srv[IncludePath(cur)]
       IN  \E o \in Outcomes(IF dst.exists THEN {"raise"} ELSE {}) :
            /\ Charge(o)
            /\ IF o = "raise" THEN Abort("compare")
               ELSE IF Replace(src, dst)
               THEN pc' = "save_move" /\ UNCHANGED <<failed, todo>>
               ELSE Return
    /\ UNCHANGED <<zones, lpmVars, cfgVars, moreVars, parseVars, loadVars, fileVars, nszones, mode, cur, records,
                   runs, log, srv0, prev>>

\* line 581: mv --force puts the rendered file in the place of the
\* include-file; the exit status of mv is not looked at
SaveMove ==
    /\ pc = "save_move"
    /\ \E o \in Outcomes({"nonzero", "raise"}) :
        /\ Charge(o)
        /\ CASE o = "ok" ->
                  /\ SrvWrite([Srv EXCEPT ![IncludePath(cur)] = Srv[TmpPath(cur)],
                                          ![TmpPath(cur)] = NoFile])
                  /\ log' = Append(log, <<"move", cur>>)
                  /\ pc' = "ser_check" /\ UNCHANGED <<failed, todo>>
             [] o = "nonzero" ->
                  /\ UNCHANGED <<fileVars, log, todo>>
                  /\ failed' = "move"
                  /\ pc' = "ser_check"
             [] o = "raise" ->
                  /\ UNCHANGED <<fileVars, log>>
                  /\ Abort("move")
    /\ UNCHANGED <<zones, lpmVars, cfgVars, moreVars, parseVars, loadVars, nszones, mode, cur, records,
                   runs, srv0, prev>>

\* the files of the name server after a reconciliation of the records that
\* met no include-file
Reconciled(cf, ign, recs) ==
    LET built == BuildZones(GetZones(cf, ign), recs)
    IN  [n \in ZoneNames(cf) |->
            IF built.ok /\ PlaceOf(ZonesIter(built.v), n) # 0
            THEN File(Render(ZoneObj(built.v, n)))
            ELSE NoFile]

Init ==
    /\ Idle
    /\ conf \in Confs
    /\ ignorezones \in {{}, {Localhost}}
    /\ remote \in BOOLEAN
    /\ today = Date(2024, 1, 1)
    /\ given \in MainShapes
    /\ \E inc \in {NoIncludes(conf), Reconciled(conf, ignorezones, RecordsWww)} :
        LET files == ServerFiles(conf, MkZoneFile(given, Date(2024, 1, 1), 7), inc)
        IN  /\ lfs = IF remote THEN NoFiles(conf) ELSE files
            /\ rfs = IF remote THEN files ELSE NoFiles(conf)
            /\ srv0 = files

Next ==
    \/ Rebuild
    \/ SaveRender
    \/ SavePush
    \/ SaveCompare
    \/ SaveMove
    \/ IncSoaSerialCmd
    \/ SerCheckMaster
    \/ SerFetch
    \/ SerPatch
    \/ SerPush
    \/ SerSize
    \/ SerInstall
    \/ SerReload

Spec == Init /\ [][Next]_vars

-----------------------------------------------------------------------------
(* What a reconciliation is expected to do *)

\* the effects of the running (or last) command on the files and the name
\* server of one zone, in order; the write of the temp file is none
EffectsOn(name) ==
    LET sel == SelectSeq(log, LAMBDA e : e[2] = name /\ e[1] # "render")
    IN  [k \in 1..Len(sel) |-> sel[k][1]]

\* the zones the running (or last) reconciliation saves
SavedZones == {ZonesIter(zones)[k].zone : k \in 1..Len(ZonesIter(zones))}

\* saveZone has returned for the zone
Saved(name) == name \in SavedZones /\ \A k \in 1..Len(todo) : todo[k] # name

\* the rendered include-file of the zone differs from the include-file the
\* command found, or it found none
Changed(name) ==
    \/ ~srv0[IncludePath(name)].exists
    \/ srv0[IncludePath(name)].data # Render(ZoneObj(zones, name))

IsPrefix(s, t) == Len(s) <= Len(t) /\ s = SubSeq(t, 1, Len(s))

MoveSerialReload == <<"move", "serial", "reload">>

\* the authoritative files of a zone are the files the command found
Untouched(name) ==
    /\ Srv[ZonePath(name)] = srv0[ZonePath(name)]
    /\ Srv[IncludePath(name)] = srv0[IncludePath(name)]

\* C1: while no step of a reconciliation has failed, the effects on a master
\* zone whose rendered include-file differs from the include-file found (or
\* that had none) are, in this order, the move of the include-file, the
\* advance of the serial and the reload of the zone; when the zone has been
\* saved all three have happened, once each.
C1_MoveSerialReloadInOrder ==
    (mode = "rebuild" /\ failed = "") =>
        \A name \in SavedZones :
            Changed(name) =>
                /\ IsPrefix(EffectsOn(name), MoveSerialReload)
                /\ Saved(name) => EffectsOn(name) = MoveSerialReload

\* a reconciliation has ended without a failed step; it replaced an
\* include-file that existed and differed
C1_Witness ==
    /\ mode = "rebuild" /\ failed = "" /\ pc = "idle"
    /\ \E name \in SavedZones :
        /\ srv0[IncludePath(name)].exists
        /\ Changed(name)
        /\ EffectsOn(name) = MoveSerialReload

Suppressed(name) ==
    \/ ZoneInfoOf(conf, name).typ # "master"
    \/ mode = "rebuild" /\ name \in ignorezones

\* C4: a zone whose kind is not master, and in a reconciliation a zone of the
\* ignore set, is never rendered, moved, advanced or reloaded, and its
\* include-file and zone file stay the files the command found.
C4_SuppressedZoneUntouched ==
    \A name \in ZoneNames(conf) :
        Suppressed(name) =>
            /\ \A k \in 1..Len(log) : log[k][2] # name
            /\ Untouched(name)

\* a reconciliation has replaced include-files next to a slave zone and an
\* ignored zone
C4_Witness ==
    /\ mode = "rebuild" /\ pc = "idle" /\ failed = ""
    /\ \E k \in 1..Len(log) : log[k][1] = "reload"
    /\ \E name \in ZoneNames(conf) : ZoneInfoOf(conf, name).typ # "master"
    /\ \E name \in ZoneNames(conf) : name \in ignorezones

\* the resource records of the reverse zones
ReverseRRs ==
    LET rev == zones.reverse4 \o zones.reverse6
    IN  UNION { UNION { {rev[k].records[key][j] : j \in 1..Len(rev[k].records[key])} :
                        key \in DOMAIN rev[k].records } :
                k \in 1..Len(rev) }

\* the record a PTR was made from
OriginOf(rr, rec) ==
    /\ rec.typ \in {TypA, TypAAAA}
    /\ rec.domain = rr.domain
    /\ Str(rec.name) = rr.value
    /\ \E j \in 1..Len(rec.value) : rec.value[j] = rr.name

\* C5: every PTR in a reverse zone comes from a record whose reverse flag is
\* true; a record declared with reverse=off has no PTR in any reverse zone.
C5_PtrOnlyIfReverse ==
    mode = "rebuild" =>
        \A rr \in ReverseRRs :
            rr.typ = TypPTR =>
                \E key \in DOMAIN records : OriginOf(rr, records[key]) /\ records[key].reverse

-----------------------------------------------------------------------------
(* Parser: the tokens of a bind configuration file *)

QUOTE == "\""

\* Parser.tokenchars
TokenChars == {LowerAlpha[i] : i \in 1..Len(LowerAlpha)} \cup {UpperAlpha[i] : i \in 1..Len(UpperAlpha)}

\* Parser.__init__: the file to read and the stack of characters put back
NewParser(f) == [inp |-> f, stack |-> <<>>]

\* Parser.getNextChar: the character, or None at end of file
GetNextChar(p) ==
    IF p.stack # <<>>
    THEN [c |-> p.stack[Len(p.stack)],
          p |-> [p EXCEPT !.stack = SubSeq(p.stack, 1, Len(p.stack) - 1)]]
    ELSE IF p.inp # <<>>
    THEN [c |-> Head(p.inp), p |-> [p EXCEPT !.inp = Tail(p.inp)]]
    ELSE [c |-> None, p |-> p]

\* Parser.ungetChar
UngetChar(p, c) == [p EXCEPT !.stack = Append(p.stack, c)]

\* F(x) and F(x, y), each argument evaluated once before F is applied:
\* Python evaluates the arguments of a call before the call
Call1(F(_), x) == CHOOSE out \in {F(v) : v \in {x}} : TRUE
Call2(F(_, _), x, y) == CHOOSE out \in {F(v, w) : v \in {x}, w \in {y}} : TRUE

\* getToken: while c and c in " \n\t"
RECURSIVE SkipBlanks(_)
SkipBlanksLoop(r) ==
    IF r.c # None /\ r.c \in {" ", NL, TAB} THEN SkipBlanks(GetNextChar(r.p)) ELSE r
SkipBlanks(r) == Call1(SkipBlanksLoop, r)

\* getToken: a quoted string runs to the next quote or to the end of file
RECURSIVE ReadString(_, _)
ReadStringLoop(r, token) ==
    IF r.c = QUOTE \/ r.c = None THEN [tok |-> token, p |-> r.p]
    ELSE ReadString(r.p, Append(token, r.c))
ReadString(p, token) == Call2(ReadStringLoop, GetNextChar(p), token)

\* getToken: a comment runs to the end of the line, the newline included
RECURSIVE SkipLine(_)
SkipLineLoop(r) ==
    IF r.c # None /\ r.c # NL THEN SkipLine(GetNextChar(r.p)) ELSE r
SkipLine(r) == Call1(SkipLineLoop, r)

\* getToken: while c and c in self.tokenchars
RECURSIVE ReadWord(_, _)
ReadWordLoop(r, token) ==
    IF r.c # None /\ r.c \in TokenChars
    THEN ReadWord(GetNextChar(r.p), Append(token, r.c))
    ELSE [c |-> r.c, p |-> r.p, tok |-> token]
ReadWord(r, token) == Call2(ReadWordLoop, r, token)

\* a token, and None in place of a token
Tok(s) == [none |-> FALSE, tok |-> s]
NoTok == [none |-> TRUE, tok |-> <<>>]

\* getToken behind the blanks: c is the character read, c2 the one behind it
RECURSIVE GetToken(_)
GetTokenWord(r, c2) ==
    IF r.c = "/" /\ c2.c = "/" THEN GetToken(SkipLine(c2).p)
    ELSE IF r.c = "/" /\ c2.c = None THEN Raised("TypeError")
    ELSE Call1(LAMBDA w : Ok([t |-> Tok(w.tok),
                              p |-> IF w.c # None THEN UngetChar(w.p, w.c) ELSE w.p]),
               ReadWord(GetNextChar(IF r.c = "/" THEN UngetChar(c2.p, c2.c) ELSE r.p),
                        IF r.c # None THEN <<r.c>> ELSE <<>>))

GetTokenAt(r) ==
    IF r.c = QUOTE
    THEN Call1(LAMBDA s : Ok([t |-> Tok(s.tok), p |-> s.p]), ReadString(r.p, <<>>))
    ELSE IF r.c \in {";", "#"} THEN GetToken(SkipLine(r).p)
    ELSE Call2(GetTokenWord, r, GetNextChar(r.p))

\* Parser.getToken: the token (or None) and the parser behind it, or the
\* TypeError of ungetChar(None)
GetTokenFrom(first) ==
    IF first.c = None THEN Ok([t |-> NoTok, p |-> first.p])
    ELSE Call1(GetTokenAt, SkipBlanks(first))
GetToken(p) == Call1(GetTokenFrom, GetNextChar(p))

-----------------------------------------------------------------------------
(* NS_Manager.getZones *)

\* NS_Manager.directory
Directory == <<"/","v","a","r","/","c","a","c","h","e","/","b","i","n","d">>

\* NS_Manager.configfile
ConfigFile == <<"n","a","m","e","d",".","c","o","n","f">>

\* ZoneInfo.__init__: name, file and typ are None
NewZoneInfo == [name |-> NoTok, typ |-> NoTok, file |-> NoTok]

\* self.zones[zone.name] = zone: a new key goes last, a known key keeps its place
ZonesPut(zs, zone) ==
    IF \E k \in 1..Len(zs) : zs[k].name = zone.name
    THEN [k \in 1..Len(zs) |-> IF zs[k].name = zone.name THEN zone ELSE zs[k]]
    ELSE Append(zs, zone)

\* parseZone: zone.file, a relative path resolved against self.directory
ResolveFile(file) ==
    IF file.none THEN Raised("TypeError")
    ELSE IF file.tok = <<>> THEN Raised("IndexError")
    ELSE IF file.tok[1] # "/" THEN Ok(Tok(Directory \o <<"/">> \o file.tok))
    ELSE Ok(file)

\* the parser of the running parseBindConfigFile, and its replacement
TopParser == pstk[Len(pstk)]
SetTop(p) == [pstk EXCEPT ![Len(pstk)] = p]

\* FileMgr.open(filename, "r") of a configuration file
OpenConf(name) ==
    IF name.none THEN Raised("TypeError")
    ELSE IF name.tok \notin DOMAIN pfiles \/ ~pfiles[name.tok].exists
    THEN Raised("FileNotFoundError")
    ELSE Ok(NewParser(pfiles[name.tok].data))

\* the variables getZones works on
ParseNow == [pstk |-> pstk, ppc |-> ppc, pzone |-> pzone, pzones |-> pzones]

\* an exception leaves getZones
ParseRaise(e) == [ParseNow EXCEPT !.ppc = e]

\* the step of getZones that leads to n
ParseSet(n) ==
    /\ pstk' = n.pstk /\ ppc' = n.ppc /\ pzone' = n.pzone /\ pzones' = n.pzones
    /\ UNCHANGED <<zones, lpmVars, cfgVars, moreVars, fileVars, runVars, loadVars, pfiles>>

\* getZones: self.zones = {} and the call of parseBindConfigFile(filename)
GetZonesCall ==
    /\ ppc = "off"
    /\ ParseSet(LET f == OpenConf(Tok(ConfigFile))
                IN  IF ~f.ok THEN ParseRaise(f.v)
                    ELSE [ParseNow EXCEPT !.pstk = <<f.v>>, !.ppc = "top", !.pzones = <<>>])

\* parseZone up to its loop: the name, an optional IN and the opening brace
ParseZoneHead(p) ==
    LET n == GetToken(p)
    IN  IF ~n.ok THEN ParseRaise(n.v)
        ELSE
        LET t1 == GetToken(n.v.p)
        IN  IF ~t1.ok THEN ParseRaise(t1.v)
            ELSE
            LET t2 == IF t1.v.t = Tok(<<"I","N">>) THEN GetToken(t1.v.p) ELSE t1
            IN  IF ~t2.ok THEN ParseRaise(t2.v)
                ELSE IF t2.v.t # Tok(<<"{">>) THEN ParseRaise("ParserException")
                ELSE [ParseNow EXCEPT !.pstk = SetTop(t2.v.p),
                                      !.pzone = [NewZoneInfo EXCEPT !.name = n.v.t],
                                      !.ppc = "zone_body"]

\* parseBindConfigFile: one turn of its loop
ParseStatementStep ==
    LET tk == GetToken(TopParser)
    IN  IF ~tk.ok THEN ParseRaise(tk.v)
        ELSE IF tk.v.t.none
        THEN [ParseNow EXCEPT !.pstk = SubSeq(pstk, 1, Len(pstk) - 1),
                              !.ppc = IF Len(pstk) = 1 THEN "done" ELSE "top"]
        ELSE IF tk.v.t = Tok(<<"i","n","c","l","u","d","e">>)
        THEN LET fn == GetToken(tk.v.p)
                 f  == OpenConf(fn.v.t)
             IN  IF ~fn.ok THEN ParseRaise(fn.v)
                 ELSE IF ~f.ok THEN ParseRaise(f.v)
                 ELSE [ParseNow EXCEPT !.pstk = Append(SetTop(fn.v.p), f.v)]
        ELSE IF tk.v.t = Tok(<<"z","o","n","e">>)
        THEN ParseZoneHead(tk.v.p)
        ELSE [ParseNow EXCEPT !.pstk = SetTop(tk.v.p)]

ParseStatement == ppc = "top" /\ ParseSet(ParseStatementStep)

\* parseZone: one turn of "while t != '}'", and behind the closing brace the
\* return to parseBindConfigFile, which keeps the zone unless it is ignored
ParseZoneBodyStep ==
    LET tk == GetToken(TopParser)
    IN  IF ~tk.ok THEN ParseRaise(tk.v)
        ELSE IF tk.v.t = Tok(<<"t","y","p","e">>)
        THEN LET v == GetToken(tk.v.p)
             IN  IF ~v.ok THEN ParseRaise(v.v)
                 ELSE [ParseNow EXCEPT !.pstk = SetTop(v.v.p), !.pzone.typ = v.v.t]
        ELSE IF tk.v.t = Tok(<<"f","i","l","e">>)
        THEN LET v == GetToken(tk.v.p)
                 f == ResolveFile(v.v.t)
             IN  IF ~v.ok THEN ParseRaise(v.v)
                 ELSE IF ~f.ok THEN ParseRaise(f.v)
                 ELSE [ParseNow EXCEPT !.pstk = SetTop(v.v.p), !.pzone.file = f.v]
        ELSE IF tk.v.t = Tok(<<"}">>)
        THEN [ParseNow EXCEPT !.pstk = SetTop(tk.v.p),
                              !.pzones = IF pzone.name.none \/ pzone.name.tok \notin ignorezones
                                         THEN ZonesPut(pzones, pzone) ELSE pzones,
                              !.ppc = "top"]
        ELSE [ParseNow EXCEPT !.pstk = SetTop(tk.v.p)]

ParseZoneBody == ppc = "zone_body" /\ ParseSet(ParseZoneBodyStep)

-----------------------------------------------------------------------------
(* The configurations getZones is run on: zone statements written out in    *)
(* one of two layouts, and texts that are cut short or hold other things    *)

IncludedFile == <<"z","o","n","e","s",".","c","o","n","f">>

\* a zone statement: its name, kind and file, whether IN is written, and
\* whether the statement stands on one line
Statements ==
    { [name |-> n, typ |-> kf[1], file |-> kf[2], in |-> i, oneline |-> o] :
        n \in {ExampleCom, ExampleOrg, Localhost},
        kf \in { <<<<"m","a","s","t","e","r">>, <<"d","b",".","z","o","n","e">>>>, <<<<"s","l","a","v","e">>, <<"/","e","t","c","/","d","b",".","z","o","n","e">>>> },
        i \in BOOLEAN, o \in BOOLEAN }

\* the text of a zone statement
StatementText(st) ==
    LET sep == IF st.oneline THEN <<" ">> ELSE <<NL, " ">>
    IN  <<"z","o","n","e"," ">> \o <<QUOTE>> \o st.name \o <<QUOTE>> \o (IF st.in THEN <<" ","I","N">> ELSE <<>>)
        \o <<" ","{">> \o sep \o <<"t","y","p","e"," ">> \o st.typ \o <<";">>
        \o sep \o <<"f","i","l","e"," ">> \o <<QUOTE>> \o st.file \o <<QUOTE, ";">>
        \o (IF st.oneline THEN <<" ">> ELSE <<NL>>) \o <<"}", ";", NL>>

RECURSIVE ConfText(_)
ConfText(sts) == IF sts = <<>> THEN <<>> ELSE StatementText(Head(sts)) \o ConfText(Tail(sts))

\* configurations of one or two zone statements with different names
StatementLists ==
    {<<a>> : a \in Statements}
    \cup {<<a, b>> : a \in {s \in Statements : s.name = ExampleCom},
                     b \in {s \in Statements : s.name # ExampleCom /\ ~s.in}}

\* the configuration files holding a list of zone statements
ConfFiles(sts) == (ConfigFile :> File(ConfText(sts))) @@ (IncludedFile :> NoFile)

\* a zone statement whose opening brace is never closed
UnbalancedTexts ==
    { <<"z","o","n","e"," ">> \o <<QUOTE>> \o ExampleCom \o <<QUOTE>> \o <<" ","{",NL," ","t","y","p","e"," ","m","a","s","t","e","r",";",NL," ","f","i","l","e"," ">> \o <<QUOTE>> \o <<"d","b",".","z","o","n","e">> \o <<QUOTE, ";", NL>>,
      <<"z","o","n","e"," ">> \o <<QUOTE>> \o ExampleCom \o <<QUOTE>> \o <<" ","{">>,
      <<"z","o","n","e"," ">> \o <<QUOTE>> \o ExampleCom \o <<QUOTE>> \o <<" ","I","N"," ","{",NL," ","t","y","p","e"," ","m","a","s","t","e","r",";",NL>>,
      <<"z","o","n","e"," ">> \o <<QUOTE>> \o ExampleCom \o <<QUOTE>> \o <<" ","{",NL," ","f","i","l","e">> }

\* other texts: a missing brace, a brace glued to a word, an unknown
\* statement, comments, an include statement, a slash at the end
OtherTexts ==
    { <<"z","o","n","e"," ">> \o <<QUOTE>> \o ExampleCom \o <<QUOTE>> \o <<" ","t","y","p","e"," ","m","a","s","t","e","r",";",NL>>,
      <<"z","o","n","e"," ">> \o <<QUOTE>> \o ExampleCom \o <<QUOTE>> \o <<" ","{","t","y","p","e"," ","m","a","s","t","e","r",";",NL,"}",";",NL>>,
      <<"o","p","t","i","o","n","s"," ","{",NL," ","d","i","r","e","c","t","o","r","y"," ">> \o <<QUOTE>> \o Directory \o <<QUOTE>> \o <<";",NL,"}",";",NL>>,
      <<"#"," ","z","o","n","e","s",NL,"/","/"," ","n","o","n","e",NL>>,
      <<"i","n","c","l","u","d","e"," ">> \o <<QUOTE>> \o IncludedFile \o <<QUOTE>> \o <<";",NL,"l","o","g","g","i","n","g",NL>>,
      <<"i","n","c","l","u","d","e"," ">> \o <<QUOTE>> \o <<"n","o","n","e",".","c","o","n","f">> \o <<QUOTE>> \o <<";",NL>>,
      <<"l","o","g","g","i","n","g",NL,"/">> }

\* the text of the included file
IncludedText ==
    <<"z","o","n","e"," ">> \o <<QUOTE>> \o ExampleOrg \o <<QUOTE>> \o <<" ","{",NL," ","t","y","p","e"," ","s","l","a","v","e",";",NL," ","f","i","l","e"," ">> \o <<QUOTE>> \o <<"/","e","t","c","/","d","b",".","z","o","n","e">> \o <<QUOTE>> \o <<";",NL,"}",";",NL>>

TextFiles(text) == (ConfigFile :> File(text)) @@ (IncludedFile :> File(IncludedText))

InitParse ==
    /\ zones = NewZones /\ pend = <<>> /\ pcL = "off" /\ lk = NoLookup
    /\ remote = FALSE /\ nszones = <<>>
    /\ lfs = EmptyMap /\ rfs = EmptyMap
    /\ pc = "idle" /\ mode = "none" /\ cur = <<>> /\ todo = <<>> /\ records = <<>>
    /\ today = NoDate /\ runs = 0 /\ faults = 0
    /\ log = <<>> /\ failed = "" /\ srv0 = EmptyMap
    /\ prev = NoPrev /\ given = NoShape
    /\ ignorezones \in {{}, {Localhost}}
    /\ \/ conf \in StatementLists /\ pfiles = ConfFiles(conf)
       \/ conf = <<>> /\ pfiles \in {TextFiles(t) : t \in UnbalancedTexts \cup OtherTexts}
    /\ pstk = <<>> /\ ppc = "off" /\ pzone = NewZoneInfo /\ pzones = <<>>
    /\ NoLoad
    /\ NoMore

NextParse ==
    \/ GetZonesCall
    \/ ParseStatement
    \/ ParseZoneBody

\* getZones runs on: no step of it is ever left undone
SpecParse == InitParse /\ [][NextParse]_vars /\ WF_vars(NextParse)

-----------------------------------------------------------------------------
(* Zone discovery: what getZones is expected to return *)

\* the configuration is a zone statement that is never closed
Unbalanced == pfiles \in {TextFiles(t) : t \in UnbalancedTexts}

\* C11: parsing a configuration in which the opening brace of a zone
\* statement has no closing brace before the end of input terminates, and
\* fails with a parse error.
C11_UnbalancedFailsWithParseError == Unbalanced ~> (ppc = "ParserException")

\* the ZoneInfo a zone statement stands for
StatementInfo(st) ==
    [name |-> Tok(st.name), typ |-> Tok(st.typ),
     file |-> Tok(IF st.file[1] = "/" THEN st.file ELSE Directory \o <<"/">> \o st.file)]

\* one ZoneInfo per zone statement that is not ignored
RECURSIVE StatementInfos(_, _)
StatementInfos(sts, ign) ==
    IF sts = <<>> THEN <<>>
    ELSE (IF Head(sts).name \in ign THEN <<>> ELSE <<StatementInfo(Head(sts))>>)
         \o StatementInfos(Tail(sts), ign)

\* C12: for a configuration of zone statements zone "<name>" [IN] { type
\* <kind>; file <path>; }, on one line or on several, getZones returns one
\* ZoneInfo per statement that is not ignored, with the name, kind and file
\* of that statement, a relative file resolved against the base directory.
C12_OneZoneInfoPerStatement ==
    (ppc = "done" /\ pfiles = ConfFiles(conf)) => pzones = StatementInfos(conf, ignorezones)

\* the zones the specification has always ignored
AlwaysIgnored ==
    { <<".">>, Localhost, <<"1","2","7",".","i","n","-","a","d","d","r",".","a","r","p","a">>, <<"0",".","i","n","-","a","d","d","r",".","a","r","p","a">>, <<"2","5","5",".","i","n","-","a","d","d","r",".","a","r","p","a">> }

\* C13: the zones ".", "localhost", "127.in-addr.arpa", "0.in-addr.arpa" and
\* "255.in-addr.arpa" never appear in the result of zone discovery, whatever
\* ignorezones is configured.
C13_AlwaysIgnoredNeverDiscovered ==
    \A k \in 1..Len(pzones) : pzones[k].name.tok \notin AlwaysIgnored

-----------------------------------------------------------------------------
(* IPv4 reverse zones: the prefix a zone name stands for *)

\* the labels in front of .in-addr.arpa
LabelsOf4(name) == Split(SubSeq(name, 1, Len(name) - Len(SuffixArpa4)), ".")

\* one to four labels, each a number of one octet
NumericName4(name) ==
    /\ EndsWith(name, SuffixArpa4)
    /\ Len(LabelsOf4(name)) \in 1..4
    /\ \A k \in 1..Len(LabelsOf4(name)) :
        AllDigits(LabelsOf4(name)[k]) /\ DecInt(LabelsOf4(name)[k]) \in 0..255

\* the labels in reversed order, filled with 0 to four octets, 8 bits a label
PrefixOf4(name) ==
    LET labels == LabelsOf4(name)
        n      == Len(labels)
    IN  [addr |-> [k \in 1..4 |-> IF k <= n THEN DecInt(labels[n + 1 - k]) ELSE 0],
         prefixlen |-> 8 * n]

\* C14: for every IPv4 reverse zone name of n numeric labels (1 <= n <= 4)
\* followed by .in-addr.arpa, zone setup succeeds and derives the prefix whose
\* octets are the labels in reversed order, right-padded with 0 to four
\* octets, with prefix length 8*n.
C14_Reverse4SetupDerivesPrefix ==
    [][(pcL = "add" /\ pend # <<>> /\ NumericName4(Head(pend))) =>
          /\ pcL' = "add"
          /\ zones'.reverse4 # <<>>
          /\ zones'.reverse4[Len(zones'.reverse4)].zone = Head(pend)
          /\ zones'.reverse4[Len(zones'.reverse4)].prefix = PrefixOf4(Head(pend))]_vars

-----------------------------------------------------------------------------
(* Loading and routing: Records.load, and DNS_Mgr.rebuild record by record *)

MaxDecls == 3

\* the lines of the records file, under $DOMAIN example.com
Declarations ==
    { [name |-> <<"w","w","w">>, ttl |-> NoTtl, typ |-> TypA, value |-> IPv4Address(<<192, 0, 2, 5>>)],
      [name |-> <<"w","w","w">>, ttl |-> NoTtl, typ |-> TypA, value |-> IPv4Address(<<192, 0, 2, 6>>)],
      [name |-> <<"w","w","w">>, ttl |-> NoTtl, typ |-> TypAAAA,
       value |-> IPv6Address(Addr6(<<"2","0","0","1","0","d","b","8">>), <<"2","0","0","1",":","d","b","8",":",":">>)],
      [name |-> <<"f","t","p">>, ttl |-> <<"3","0","0">>, typ |-> TypCNAME, value |-> Str(<<"w","w","w">>)],
      [name |-> <<"@">>, ttl |-> NoTtl, typ |-> TypA, value |-> IPv4Address(<<192, 0, 2, 5>>)] }

\* Records.load: the Record of a line
RecordOf(d) ==
    Record(ExampleCom, d.ttl, d.name, d.typ, d.value, LoaderReverse(NoOption, d.typ, TRUE, TRUE))

\* DNS_Mgr.rebuild: the resource records the loop makes of one value, and
\* the method each is handed to
RoutedOfValue(record, value) ==
    LET fwd == [rr |-> RR(record.domain, record.ttl, Str(record.name), record.typ, value),
                via |-> "add_rr", fqdn |-> record.fqdn, typ |-> record.typ]
        ptr == [rr |-> RR(record.domain, record.ttl, value, TypPTR, Str(record.name)),
                via |-> IF record.typ = TypA THEN "add_rr_reverse4" ELSE "add_rr_reverse6",
                fqdn |-> record.fqdn, typ |-> record.typ]
    IN  IF record.typ \in {TypA, TypAAAA} THEN <<fwd, ptr>> ELSE <<fwd>>

RECURSIVE RoutedOfValues(_, _)
RoutedOfValues(record, values) ==
    IF values = <<>> THEN <<>>
    ELSE RoutedOfValue(record, Head(values)) \o RoutedOfValues(record, Tail(values))

\* the temp files saveZone writes for the zones, by path
RECURSIVE RenderAll(_)
RenderAll(zlist) ==
    IF zlist = <<>> THEN EmptyMap
    ELSE (TmpPath(Head(zlist).zone) :> File(Render(Head(zlist)))) @@ RenderAll(Tail(zlist))

InitLoad ==
    /\ zones = NewZones /\ pend = <<>> /\ pcL = "off" /\ lk = NoLookup
    /\ conf = MainConf /\ ignorezones = {} /\ remote = FALSE /\ nszones = <<>>
    /\ lfs = EmptyMap /\ rfs = EmptyMap
    /\ pc = "idle" /\ mode = "none" /\ cur = <<>> /\ todo = <<>> /\ records = EmptyMap
    /\ today = NoDate /\ runs = 0 /\ faults = 0
    /\ log = <<>> /\ failed = "" /\ srv0 = EmptyMap
    /\ prev = NoPrev /\ given = NoShape
    /\ NoParse
    /\ NoMore
    /\ declared = <<>> /\ queue = <<>> /\ rrlog = <<>> /\ lpc = "load"

\* Records.load: one line of the records file
LoadRecord ==
    /\ lpc = "load"
    /\ Len(declared) < MaxDecls
    /\ \E d \in Declarations :
        /\ records' = RecordsAdd(records, RecordOf(d))
        /\ declared' = Append(declared, d)
    /\ UNCHANGED <<zones, lpmVars, cfgVars, moreVars, fileVars, parseVars, queue, rrlog, lpc,
                   nszones, pc, mode, cur, todo, runs, faults, log, failed, srv0, prev>>

\* DNS_Mgr.rebuild up to the loop over the records: the zones are
\* discovered and added and the index is built
StartRouting ==
    /\ lpc = "load"
    /\ nszones' = GetZones(conf, ignorezones)
    /\ LET added == AddZones(NewZones, nszones')
           idx   == ZonesInitSearch(added.v)
       IN  IF added.ok /\ idx.ok
           THEN zones' = idx.v /\ lpc' = "route" /\ queue' = RecordsIter(records)
           ELSE lpc' = "failed" /\ UNCHANGED <<zones, queue>>
    /\ UNCHANGED <<lpmVars, cfgVars, moreVars, fileVars, parseVars, declared, rrlog,
                   pc, mode, cur, todo, records, runs, faults, log, failed, srv0, prev>>

\* DNS_Mgr.rebuild: one turn of "for record in records"
RouteRecord ==
    /\ lpc = "route"
    /\ queue # <<>>
    /\ zones' = RouteValues(zones, Head(queue), Head(queue).value)
    /\ rrlog' = rrlog \o RoutedOfValues(Head(queue), Head(queue).value)
    /\ queue' = Tail(queue)
    /\ UNCHANGED <<lpmVars, cfgVars, moreVars, fileVars, parseVars, declared, lpc, runVars>>

\* DNS_Mgr.rebuild: "for zone in self.zones", the temp file of every zone
RenderZones ==
    /\ lpc = "route"
    /\ queue = <<>>
    /\ lfs' = RenderAll(ZonesIter(zones))
    /\ lpc' = "done"
    /\ UNCHANGED <<zones, lpmVars, cfgVars, moreVars, rfs, parseVars, declared, queue, rrlog, runVars>>

NextLoad ==
    \/ LoadRecord
    \/ StartRouting
    \/ RouteRecord
    \/ RenderZones

SpecLoad == InitLoad /\ [][NextLoad]_vars

-----------------------------------------------------------------------------
(* The record set: what Records holds after the lines of a records file *)

\* the values declared for (fqdn, type), in the order of the declarations
RECURSIVE DeclaredValues(_, _, _)
DeclaredValues(ds, fqdn, typ) ==
    IF ds = <<>> THEN <<>>
    ELSE (IF RecordOf(Head(ds)).fqdn = fqdn /\ Head(ds).typ = typ
          THEN <<Head(ds).value>> ELSE <<>>)
         \o DeclaredValues(Tail(ds), fqdn, typ)

\* the keys under which the record set holds a record of (fqdn, type)
HeldAs(fqdn, typ) ==
    {key \in DOMAIN records : records[key].fqdn = fqdn /\ records[key].typ = typ}

\* C15: after any sequence of records was added to the record set, there is
\* for each (fqdn, type) one record whose value list is the concatenation,
\* in declaration order, of the values of all added records with that
\* (fqdn, type), duplicate values kept.
C15_ValuesMergedInDeclarationOrder ==
    /\ \A k \in 1..Len(declared) :
        LET fqdn == RecordOf(declared[k]).fqdn
            typ  == declared[k].typ
        IN  /\ Cardinality(HeldAs(fqdn, typ)) = 1
            /\ \A key \in HeldAs(fqdn, typ) :
                records[key].value = DeclaredValues(declared, fqdn, typ)
    /\ \A key \in DOMAIN records :
        \E k \in 1..Len(declared) :
            RecordOf(declared[k]).fqdn = records[key].fqdn /\ declared[k].typ = records[key].typ

\* three declarations of one (fqdn, type), the first value declared again
C15_Witness ==
    \E key \in DOMAIN records :
        /\ Len(records[key].value) = 3
        /\ records[key].value[1] = records[key].value[3]
        /\ records[key].value[1] # records[key].value[2]

-----------------------------------------------------------------------------
(* The order in which rebuild hands the resource records to the zones *)

\* the line of the records file that first declares (fqdn, type)
FirstDeclared(fqdn, typ) ==
    CHOOSE k \in 1..Len(declared) :
        /\ RecordOf(declared[k]).fqdn = fqdn /\ declared[k].typ = typ
        /\ \A j \in 1..(k - 1) :
            ~(RecordOf(declared[j]).fqdn = fqdn /\ declared[j].typ = typ)

\* C16: records are routed to the zones in the order in which the loader
\* produced them: if r1 was first declared before r2, every resource record
\* of r1 is added to its zone before any resource record of r2.
C16_RoutedInDeclarationOrder ==
    \A i, j \in 1..Len(rrlog) :
        i < j => FirstDeclared(rrlog[i].fqdn, rrlog[i].typ)
                     <= FirstDeclared(rrlog[j].fqdn, rrlog[j].typ)

-----------------------------------------------------------------------------
(* The fully qualified name of a record *)

Apex == <<"@">>

\* the name a record stands for: the domain itself for "@"
FqdnOf(name, domain) == IF name = Apex THEN domain ELSE name \o <<".">> \o domain

\* the text holds the character
Contains(text, c) == \E k \in 1..Len(text) : text[k] = c

\* C17: for every record, fqdn equals name + "." + domain when name is not
\* "<<","," ","a","n","d"," ","e","q","u","a","l","s"," ","t","h","e"," ","d","o","m","a","i","n"," ","i","t","s","e","l","f"," ","w","h","e","n"," ","n","a","m","e"," ","i","s"," ">>"; so the PTR target
\* derived from an apex record never contains the "@" character.
C17_ApexFqdnIsDomain ==
    /\ \A key \in DOMAIN records :
        records[key].fqdn = FqdnOf(records[key].name, records[key].domain)
    /\ \A p \in DOMAIN lfs :
        \A k \in 1..Len(ZonesIter(zones)) :
            (p = TmpPath(ZonesIter(zones)[k].zone) /\ ZonesIter(zones)[k].typ # "forward")
                => ~Contains(lfs[p].data, "@")

-----------------------------------------------------------------------------
(* The order of the lines of a rendered include-file *)

\* the zone key of a resource record
KeyOf(rr) == StrOf(rr.name) \o rr.domain

\* the method that adds to a zone of this type
MethodOf(zone) ==
    IF zone.typ = "forward" THEN "add_rr"
    ELSE IF zone.typ = "reverse4" THEN "add_rr_reverse4" ELSE "add_rr_reverse6"

\* the resource records added to the zone under the key, in the order in
\* which rebuild handed them over
AddedUnder(zone, key) ==
    SelectSeq(rrlog, LAMBDA e :
        /\ e.via = MethodOf(zone)
        /\ KeyOf(e.rr) = key
        /\ \E k \in 1..Len(zone.records[key]) : zone.records[key][k] = e.rr)

\* the keys of the zone in ascending string order: the key at place i has
\* i - 1 keys below it
AscendingKeys(zone) ==
    [i \in 1..Cardinality(DOMAIN zone.records) |->
        CHOOSE key \in DOMAIN zone.records :
            Cardinality({other \in DOMAIN zone.records : StrLess(other, key)}) = i - 1]

\* the lines of the keys in ascending order, and under a key the lines of
\* its resource records in the order they were added
LinesInOrder(zone) ==
    Join([i \in 1..Len(AscendingKeys(zone)) |->
            LET added == AddedUnder(zone, AscendingKeys(zone)[i])
            IN  Join([k \in 1..Len(added) |-> RenderRR(zone, added[k].rr)], <<>>)],
         <<>>)

\* C18: in every rendered include-file the lines of the resource records
\* are grouped by zone key (name + domain) in ascending string order of the
\* key, and within one key they stand in the order in which the resource
\* records were added to the zone.
C18_LinesByKeyThenInsertion ==
    lpc = "done" =>
        \A k \in 1..Len(ZonesIter(zones)) :
            LET zone == ZonesIter(zones)[k]
            IN  lfs[TmpPath(zone.zone)].data = RenderHead(zone) \o LinesInOrder(zone)

\* a rendered zone with several keys, one of them with two different
\* resource records
C18_Witness ==
    /\ lpc = "done"
    /\ \E k \in 1..Len(ZonesIter(zones)) :
        LET zone == ZonesIter(zones)[k]
        IN  /\ Cardinality(DOMAIN zone.records) >= 2
            /\ \E key \in DOMAIN zone.records :
                /\ Len(zone.records[key]) >= 2
                /\ zone.records[key][1] # zone.records[key][2]
            /\ lfs[TmpPath(zone.zone)].data # RenderHead(zone)

-----------------------------------------------------------------------------
(* A failure inside saveZone and the zones that follow (DNS_Mgr.rebuild,   *)
(* lines 535..536, has no handler around saveZone).                        *)

\* the zones that follow a zone in the iteration order of rebuild
Following(name) ==
    LET zs == ZonesIter(zones)
    IN  {zs[k].zone : k \in {j \in 1..Len(zs) : j > PlaceOf(zs, name)}}

Rendered(name) == \E i \in 1..Len(log) : log[i] = <<"render", name>>

\* C19: when the copy or the compare of a zone's include-file has failed in
\* a reconciliation, only that zone is aborted: once the run has ended every
\* zone that follows it in iteration order has been rendered.
C19_FollowingZonesStillRendered ==
    (mode = "rebuild" /\ pc = "idle" /\ failed \in {"copy", "compare"}) =>
        \A name \in Following(cur) : Rendered(name)

-----------------------------------------------------------------------------
(* The exit status of mv (FileMgr.move, lines 275..277, runs it with       *)
(* call=True and saveZone, line 581, drops the value returned).            *)

\* C20: in a reconciliation a zone whose include-file was not moved into
\* place (the mv exited non-zero) has neither its serial advanced nor its
\* zone reloaded: the effects on a zone never start with anything but the
\* move.
C20_NoSerialNoReloadWithoutMove ==
    mode = "rebuild" =>
        \A name \in SavedZones :
            EffectsOn(name) # <<>> => EffectsOn(name)[1] = "move"

-----------------------------------------------------------------------------
(* The DHCP include-files: DHCPd_manager.update of dnsmgr_isc_dhcp.py and  *)
(* MyFile of dnsmgr_util.py.                                               *)

\* the file is taken to be unequal to every temp file
MyFileEqualNever(disk, temp) == FALSE

\* MyFile.equal: the file on disk is read and compared with the temp file
MyFileEqual(disk, temp) == disk.data = temp

\* s.replace(a, b) for single characters
StrReplace(s, a, b) == [k \in 1..Len(s) |-> IF s[k] = a THEN b ELSE s[k]]

\* Record.__init__ of dnsmgr_util.py
UtilRecord(domain, name, typ, value, mac_address) ==
    [domain |-> domain, ttl |-> <<>>, name |-> name, typ |-> typ, value |-> <<value>>,
     fqdn |-> name \o <<".">> \o domain, mac_address |-> mac_address]

\* update, lines 47..50 and 60..63: the head of an include-file
DhcpHead ==
    <<"#",NL>> \o <<"#"," ","T","h","i","s"," ","f","i","l","e"," ","i","s"," ","a","u","t","o","m","a","t","i","c","a","l","l","y"," ","c","r","e","a","t","e","d"," ","b","y"," ","D","n","s","M","g","r",NL>>
    \o <<"#"," ","D","o"," ","n","o","t"," ","e","d","i","t",","," ","c","h","a","n","g","e","s"," ","w","i","l","l"," ","b","e"," ","l","o","s","t",NL>> \o <<"#",NL>>

\* update, lines 75..80: the host statement of a record
DhcpHost(record) ==
    <<NL>> \o <<"h","o","s","t"," ">> \o StrReplace(record.fqdn, ".", "_") \o <<" ","{",NL>>
    \o <<" "," ","h","a","r","d","w","a","r","e"," ","e","t","h","e","r","n","e","t"," ">> \o record.mac_address \o <<";",NL>>
    \o <<" "," ","f","i","x","e","d","-","a","d","d","r","e","s","s"," ">> \o StrOf(record.value[1]) \o <<";",NL>>
    \o <<"}",NL>>

\* update, lines 72..84: what the loop over the records writes to the IPv4
\* temp file
RECURSIVE DhcpHosts(_)
DhcpHosts(recs) ==
    IF recs = <<>> THEN <<>>
    ELSE (IF Head(recs).typ = TypA /\ Head(recs).mac_address # None
          THEN DhcpHost(Head(recs)) ELSE <<>>) \o DhcpHosts(Tail(recs))

\* update, lines 43..84: the temp files of the MyFile objects made, by family;
\* a family without a configured include-file has none
DhcpTemp(config, recs) ==
    [f \in {g \in {"v4", "v6"} : config[g]} |->
        IF f = "v4" THEN DhcpHead \o DhcpHosts(RecordsIter(recs)) ELSE DhcpHead]

\* writes and restarts of the running update
DhcpDid(what, family) == \E i \in 1..Len(dlog) : dlog[i] = <<what, family>>

\* an update has ended, normally or with an exception
DhcpEnded == dpc \notin {"off", "replace_v4", "restart_v4", "replace_v6"}

MaxUpdates == 2

MacOne == <<"0","0",":","1","6",":","3","e",":","0","0",":","0","0",":","0","1">>
MacTwo == <<"0","0",":","1","6",":","3","e",":","0","0",":","0","0",":","0","2">>

\* the records update is handed: none with a mac, one, two (declared out of
\* order), and an AAAA record with a mac
DhcpRecordSets ==
    LET pc1  == UtilRecord(ExampleCom, <<"p","c","1">>, TypA, IPv4Address(<<192, 0, 2, 5>>), MacOne)
        pc2  == UtilRecord(ExampleCom, <<"p","c","2">>, TypA, IPv4Address(<<192, 0, 2, 6>>), MacTwo)
        www  == UtilRecord(ExampleCom, <<"w","w","w">>, TypA, IPv4Address(<<192, 0, 2, 7>>), None)
        pc16 == UtilRecord(ExampleCom, <<"p","c","1">>, TypAAAA,
                    IPv6Address(Addr6(<<"2","0","0","1","0","d","b","8">>),
                                <<"2","0","0","1",":","d","b","8",":",":">>), MacOne)
    IN  {MkRecords(<<www>>), MkRecords(<<pc1, www>>), MkRecords(<<pc2, pc1>>),
         MkRecords(<<pc1, pc16>>)}

\* the include-files found on disk: none, an empty one, one that holds the
\* head only
DhcpDiskFiles == {NoFile, File(<<>>), File(DhcpHead)}

\* the name server is left alone: no zone, no file, no command
NoServer ==
    /\ zones = NewZones /\ pend = <<>> /\ pcL = "off" /\ lk = NoLookup
    /\ conf = <<>> /\ ignorezones = {} /\ remote = FALSE /\ nszones = <<>>
    /\ lfs = EmptyMap /\ rfs = EmptyMap
    /\ pc = "idle" /\ mode = "none" /\ cur = <<>> /\ todo = <<>> /\ records = EmptyMap
    /\ today = NoDate /\ runs = 0 /\ faults = 0
    /\ log = <<>> /\ failed = "" /\ srv0 = EmptyMap
    /\ prev = NoPrev /\ given = NoShape
    /\ NoParse
    /\ NoLoad

InitDhcp ==
    /\ NoServer
    /\ NoLine
    /\ dconfig \in [{"v4", "v6"} -> BOOLEAN]
    /\ ddisk \in [{"v4", "v6"} -> DhcpDiskFiles]
    /\ drecords = EmptyMap /\ dtemp = EmptyMap /\ dpc = "off" /\ dlog = <<>>
    /\ ddisk0 = ddisk /\ dprev = [records |-> EmptyMap, dpc |-> "off"] /\ dupdates = 0

DhcpOthers == <<zones, lpmVars, cfgVars, fileVars, runVars, parseVars, loadVars, lineVars>>

\* update, lines 43..84: the MyFile objects are made and the records are
\* written to the temp files; without any include-file the process exits
DhcpUpdate ==
    /\ dpc = "off" \/ DhcpEnded
    /\ dupdates < MaxUpdates
    /\ dupdates' = dupdates + 1
    /\ \E recs \in DhcpRecordSets :
        /\ drecords' = recs
        /\ dtemp' = DhcpTemp(dconfig, recs)
    /\ dprev' = [records |-> drecords, dpc |-> dpc]
    /\ dlog' = <<>>
    /\ ddisk0' = ddisk
    /\ dpc' = IF ~dconfig["v4"] /\ ~dconfig["v6"] THEN "SystemExit" ELSE "replace_v4"
    /\ UNCHANGED <<DhcpOthers, dconfig, ddisk>>

\* update, lines 86..87, and MyFile.replace: the IPv4 include-file is read
\* and, when the temp file is different, written
DhcpReplaceV4 ==
    /\ dpc = "replace_v4"
    /\ IF ~dconfig["v4"]
       THEN dpc' = "replace_v6" /\ UNCHANGED <<ddisk, dlog>>
       ELSE IF ~ddisk["v4"].exists
       THEN dpc' = "FileNotFoundError" /\ UNCHANGED <<ddisk, dlog>>
       ELSE IF MyFileEqual(ddisk["v4"], dtemp["v4"])
       THEN dpc' = "replace_v6" /\ UNCHANGED <<ddisk, dlog>>
       ELSE /\ ddisk' = [ddisk EXCEPT !["v4"] = File(dtemp["v4"])]
            /\ dlog' = Append(dlog, <<"write", "v4">>)
            /\ dpc' = "restart_v4"
    /\ UNCHANGED <<DhcpOthers, dconfig, drecords, dtemp, ddisk0, dprev, dupdates>>

\* update, line 88, and restart_v4: the restart command of the DHCPv4 server
\* is run
DhcpRestartV4 ==
    /\ dpc = "restart_v4"
    /\ dlog' = Append(dlog, <<"restart", "v4">>)
    /\ dpc' \in {"replace_v6", "CalledProcessError"}
    /\ UNCHANGED <<DhcpOthers, dconfig, ddisk, drecords, dtemp, ddisk0, dprev, dupdates>>

\* update, lines 90..93: with an IPv6 include-file configured, replace is
\* called on ipv4_file, a name that is bound only when the IPv4 include-file
\* is configured; restart_v6, line 34, reads an attribute of None before any
\* command is run
DhcpReplaceV6 ==
    /\ dpc = "replace_v6"
    /\ IF ~dconfig["v6"]
       THEN dpc' = "idle" /\ UNCHANGED <<ddisk, dlog>>
       ELSE IF ~dconfig["v4"]
       THEN dpc' = "UnboundLocalError" /\ UNCHANGED <<ddisk, dlog>>
       ELSE IF ~ddisk["v4"].exists
       THEN dpc' = "FileNotFoundError" /\ UNCHANGED <<ddisk, dlog>>
       ELSE IF MyFileEqual(ddisk["v4"], dtemp["v4"])
       THEN dpc' = "idle" /\ UNCHANGED <<ddisk, dlog>>
       ELSE /\ ddisk' = [ddisk EXCEPT !["v4"] = File(dtemp["v4"])]
            /\ dlog' = Append(dlog, <<"write", "v4">>)
            /\ dpc' = "AttributeError"
    /\ UNCHANGED <<DhcpOthers, dconfig, drecords, dtemp, ddisk0, dprev, dupdates>>

NextDhcp == DhcpUpdate \/ DhcpReplaceV4 \/ DhcpRestartV4 \/ DhcpReplaceV6

SpecDhcp == InitDhcp /\ [][NextDhcp]_vars

-----------------------------------------------------------------------------
(* What an update of the DHCP include-files is expected to do *)

\* the update has got past the IPv4 include-file and its restart
DhcpPastV4 == dconfig["v4"] /\ dpc \notin {"off", "replace_v4", "restart_v4", "SystemExit"}

\* C21: an update that finds the IPv4 include-file on disk rewrites it if and
\* only if the generated content differs from the content found, and runs
\* the DHCPv4 restart command if and only if it rewrote the file; an update
\* that follows an update of the same records neither writes nor restarts.
C21_RewriteAndRestartIffDifferent ==
    (DhcpPastV4 /\ ddisk0["v4"].exists) =>
        /\ DhcpDid("write", "v4") <=> dtemp["v4"] # ddisk0["v4"].data
        /\ DhcpDid("restart", "v4") <=> DhcpDid("write", "v4")
        /\ ddisk["v4"] = File(dtemp["v4"])
        /\ (dupdates > 1 /\ dprev.records = drecords) => dlog = <<>>

\* a second update of the same records has ended after the first one rewrote
\* the IPv4 include-file and restarted the server
C21_Witness ==
    /\ DhcpPastV4 /\ dpc = "idle"
    /\ dupdates = 2 /\ dprev.records = drecords /\ dprev.dpc = "idle"
    /\ ddisk0["v4"].exists /\ dlog = <<>>
    /\ ddisk["v4"].data # DhcpHead

\* C25: an update with an IPv6 include-file configured ends normally whether
\* or not an IPv4 include-file is configured, and has run the DHCPv6 restart
\* command if and only if it replaced the IPv6 include-file.
C25_RestartV6IffV6Replaced ==
    (dconfig["v6"] /\ DhcpEnded /\ (dconfig["v4"] => ddisk0["v4"].exists)
     /\ dpc # "CalledProcessError") =>
        /\ dpc = "idle"
        /\ DhcpDid("restart", "v6") <=> DhcpDid("write", "v6")

\* C30: an update that finds no IPv4 include-file on disk creates it with
\* the generated content and runs the restart command.
C30_MissingFileIsCreated ==
    (DhcpPastV4 /\ ~ddisk0["v4"].exists) =>
        /\ ddisk["v4"] = File(dtemp["v4"])
        /\ DhcpDid("restart", "v4")

-----------------------------------------------------------------------------
(* Routing over several configurations: records of a domain no zone has,   *)
(* addresses inside and outside the reverse zones.                         *)

ExampleNet == <<"e","x","a","m","p","l","e",".","n","e","t">>

\* 2001:0db7::/32, next to the address 2001:db8:: of the records
Rev6Near == In6(<<"7",".","b",".","d",".","0",".","1",".","0",".","0",".","2">>)

\* 2001:0db8::/32
Rev6Zone == In6(<<"8",".","b",".","d",".","0",".","1",".","0",".","0",".","2">>)

RouteConfs ==
    { MainConf,
      <<ZoneInfo(ExampleCom, "master"), ZoneInfo(Rev4Zone, "master"), ZoneInfo(Rev6Zone, "master")>>,
      <<ZoneInfo(ExampleCom, "master"), ZoneInfo(Rev6Near, "master")>>,
      <<ZoneInfo(ExampleNet, "master"), ZoneInfo(In4(<<"1","9","2">>), "master"),
        ZoneInfo(Rev4Zone, "master")>> }

\* www A 192.0.2.9 under $DOMAIN example.net
RecNet ==
    Record(ExampleNet, NoTtl, <<"w","w","w">>, TypA, IPv4Address(<<192, 0, 2, 9>>),
           LoaderReverse(NoOption, TypA, TRUE, TRUE))

\* the records loaded before the lines of example.com are read
RouteRecordSets == {EmptyMap, MkRecords(<<RecNet>>), MkRecords(<<RecNet, RecMail>>)}

InitRoute ==
    /\ zones = NewZones /\ pend = <<>> /\ pcL = "off" /\ lk = NoLookup
    /\ conf \in RouteConfs /\ ignorezones = {} /\ remote = FALSE /\ nszones = <<>>
    /\ lfs = EmptyMap /\ rfs = EmptyMap
    /\ pc = "idle" /\ mode = "none" /\ cur = <<>> /\ todo = <<>>
    /\ records \in RouteRecordSets
    /\ today = NoDate /\ runs = 0 /\ faults = 0
    /\ log = <<>> /\ failed = "" /\ srv0 = EmptyMap
    /\ prev = NoPrev /\ given = NoShape
    /\ NoParse
    /\ NoMore
    /\ declared = <<>> /\ queue = <<>> /\ rrlog = <<>> /\ lpc = "load"

SpecRoute == InitRoute /\ [][NextLoad]_vars

\* a zone holds the resource record
Holds(rr) ==
    \E k \in 1..Len(ZonesIter(zones)) :
        \E key \in DOMAIN ZonesIter(zones)[k].records :
            \E i \in 1..Len(ZonesIter(zones)[k].records[key]) :
                ZonesIter(zones)[k].records[key][i] = rr

\* a forward zone has the name of the domain
ForwardZoneOf(domain) == \E k \in 1..Len(zones.zones) : zones.zones[k].zone = domain

\* a reverse zone of the family covers the address
ReverseZoneOf(value) ==
    IF value.fam = 4
    THEN \E k \in 1..Len(zones.reverse4) : Covers(zones.reverse4[k], 4, value.quad)
    ELSE \E k \in 1..Len(zones.reverse6) : Covers(zones.reverse6[k], 6, value.nibs)

\* the forward and the reverse resource record of a value of a record
ForwardRR(record, value) == RR(record.domain, record.ttl, Str(record.name), record.typ, value)
ReverseRR(record, value) == RR(record.domain, record.ttl, value, TypPTR, Str(record.name))

\* the record is routed or skipped as its domain and address ask for
RoutedOrSkipped(record) ==
    \A i \in 1..Len(record.value) :
        /\ Holds(ForwardRR(record, record.value[i])) <=> ForwardZoneOf(record.domain)
        /\ record.typ \in {TypA, TypAAAA} =>
               (Holds(ReverseRR(record, record.value[i])) <=> ReverseZoneOf(record.value[i]))

\* the address records, IPv4 only
RoutedOrSkipped4(record) ==
    \A i \in 1..Len(record.value) :
        /\ Holds(ForwardRR(record, record.value[i])) <=> ForwardZoneOf(record.domain)
        /\ record.typ = TypA =>
               (Holds(ReverseRR(record, record.value[i])) <=> ReverseZoneOf(record.value[i]))

AllRendered == \A k \in 1..Len(ZonesIter(zones)) : TmpPath(ZonesIter(zones)[k].zone) \in DOMAIN lfs

\* C22: routing never ends a reconciliation: once the zones are set up every
\* record is routed and every zone is rendered; a record whose domain is the
\* name of no forward zone is in no zone, an address no reverse zone covers
\* has its PTR in no zone, and every other record is in its zones.
C22_RoutingSkipsAndGoesOn ==
    /\ lpc = "route" => \A k \in 1..Len(RecordsIter(records)) :
           (\A j \in 1..Len(queue) : queue[j] # RecordsIter(records)[k])
               => RoutedOrSkipped(RecordsIter(records)[k])
    /\ lpc = "done" =>
           AllRendered /\ \A k \in 1..Len(RecordsIter(records)) : RoutedOrSkipped(RecordsIter(records)[k])

\* the same with IPv4 addresses only
RoutingSkipsAndGoesOn4 ==
    lpc = "done" =>
        AllRendered /\ \A k \in 1..Len(RecordsIter(records)) : RoutedOrSkipped4(RecordsIter(records)[k])

-----------------------------------------------------------------------------
(* The leaf slots of the tries while init_search fills them *)

\* the tries after the first n add_prefix calls of init_search
TrieAfter4(n) == BuildLpm4(NewTrie, SubSeq(zones.reverse4, 1, n))
TrieAfter6(n) == BuildLpm6(NewTrie, SubSeq(zones.reverse6, 1, n)).v

\* the slots written so far are the same one call later
SlotsKept(t, u) == \A slot \in DOMAIN t.obj : slot \in DOMAIN u.obj /\ u.obj[slot] = t.obj[slot]

\* the node and the slot a reverse zone ends at
LeafOf(z, stride) ==
    LET n == Descents(z.prefix.prefixlen, stride)
    IN  <<SubSeq(IF stride = 8 THEN z.prefix.addr ELSE HexStrides(z.prefix.addr), 1, n),
          IF stride = 8 THEN z.prefix.addr[n + 1] ELSE HexVal(z.prefix.addr[n + 1])>>

\* no slot holds a zone while a zone of a longer prefix that ends at the slot
\* was inserted
MostSpecificHeld(t, zlist, stride) ==
    \A slot \in DOMAIN t.obj :
        \A k \in 1..Len(zlist) :
            LeafOf(zlist[k], stride) = slot =>
                zlist[PlaceOf(zlist, t.obj[slot])].prefix.prefixlen >= zlist[k].prefix.prefixlen

\* C23: while init_search adds the reverse zones, longest prefix first, a
\* leaf slot that holds a zone keeps it through every later add_prefix, in
\* both tries, and no slot holds a zone of a shorter prefix than a zone that
\* was inserted and ends at that slot.
C23_LeafSlotsNeverOverwritten ==
    pcL = "ready" =>
        /\ zones.lpm4 = TrieAfter4(Len(zones.reverse4))
        /\ zones.lpm6 = TrieAfter6(Len(zones.reverse6))
        /\ \A n \in 1..Len(zones.reverse4) : SlotsKept(TrieAfter4(n - 1), TrieAfter4(n))
        /\ \A n \in 1..Len(zones.reverse6) : SlotsKept(TrieAfter6(n - 1), TrieAfter6(n))
        /\ MostSpecificHeld(zones.lpm4, zones.reverse4, 8)
        /\ MostSpecificHeld(zones.lpm6, zones.reverse6, 4)

\* two zones were added to a trie and the second met a slot of its range
\* that the first had written: the slot holds the first zone
C23_Witness ==
    /\ pcL = "ready"
    /\ \E fam \in {4, 6} :
        LET zlist == IF fam = 4 THEN zones.reverse4 ELSE zones.reverse6
            t     == IF fam = 4 THEN zones.lpm4 ELSE zones.lpm6
        IN  /\ Len(zlist) = 2
            /\ LeafOf(zlist[2], IF fam = 4 THEN 8 ELSE 4) \in DOMAIN t.obj
            /\ t.obj[LeafOf(zlist[2], IF fam = 4 THEN 8 ELSE 4)] = zlist[1].zone

-----------------------------------------------------------------------------
(* The record count in the preamble of an include-file *)

RecordsTag == <<";"," ","R","e","c","o","r","d","s"," "," ",":"," ">>
OriginTag == <<"$","O","R","I","G","I","N"," ">>

\* the place of the first occurrence of a text in a file
FindText(data, text) ==
    CHOOSE p \in 1..Len(data) :
        /\ SubSeq(data, p, p + Len(text) - 1) = text
        /\ \A q \in 1..(p - 1) : SubSeq(data, q, q + Len(text) - 1) # text

\* the end of the line a place lies on
EndOfLine(data, p) == CHOOSE e \in p..Len(data) : data[e] = NL /\ \A q \in p..(e - 1) : data[q] # NL

\* the number written behind "; Records  : "
CountWritten(data) ==
    LET p == FindText(data, RecordsTag) + Len(RecordsTag)
    IN  DecInt(SubSeq(data, p, EndOfLine(data, p) - 1))

\* the number of lines that follow the $ORIGIN line and are not empty
LinesWritten(data) ==
    LET o == EndOfLine(data, FindText(data, OriginTag))
    IN  Cardinality({e \in (o + 1)..Len(data) : data[e] = NL /\ data[e - 1] # NL})

\* C24: in every rendered include-file the record count of the preamble is
\* the number of resource record lines that follow in the file.
C24_CountIsNumberOfLines ==
    lpc = "done" =>
        \A k \in 1..Len(ZonesIter(zones)) :
            LET data == lfs[TmpPath(ZonesIter(zones)[k].zone)].data
            IN  CountWritten(data) = LinesWritten(data)

\* the same for the zones in which no name has more than one resource record
CountIsNumberOfLinesSingle ==
    lpc = "done" =>
        \A k \in 1..Len(ZonesIter(zones)) :
            LET z    == ZonesIter(zones)[k]
                data == lfs[TmpPath(z.zone)].data
            IN  (\A key \in DOMAIN z.records : Len(z.records[key]) = 1)
                    => CountWritten(data) = LinesWritten(data)

-----------------------------------------------------------------------------
(* Serial advances on several days: the command incsoaserial is run again  *)
(* after the date has changed.                                             *)

\* datetime.datetime.now().date() gives a later day to the next command
DayPasses ==
    /\ pc = "idle"
    /\ runs > 0
    /\ \E d \in Todays : DateAfter(d, today) /\ today' = d
    /\ UNCHANGED <<zones, lpmVars, conf, ignorezones, remote, given, moreVars, fileVars,
                   runVars, parseVars, loadVars>>

NextSerialDays == NextSerial \/ DayPasses

SpecSerialDays == InitSerial /\ [][NextSerialDays]_vars

\* C26: whenever a command has advanced the serial of a zone, the serial the
\* zone file has now is, as a ten-digit number, strictly greater than the
\* serial the command found, on whatever day the commands before it ran.
C26_SerialStrictlyIncreases ==
    \A name \in ZoneNames(conf) :
        Advanced(name) =>
            NumberOf(FieldOf(Srv, name)) > NumberOf(FieldOf(srv0, name))

\* the second advance of a zone's serial, on a later day than the first
C26_Witness ==
    /\ runs = 2 /\ pc = "idle" /\ failed = ""
    /\ Advanced(cur)
    /\ \E i \in 1..Len(prev.log) : prev.log[i] = <<"serial", cur>>
    /\ DateOfNumber(NumberOf(FieldOf(Srv, cur))) = today
    /\ DateAfter(today, DateOfNumber(NumberOf(FieldOf(srv0, cur))))

-----------------------------------------------------------------------------
(* A failure of the Serial Editor after the include-file was moved into    *)
(* place (saveZone, lines 571..582) and the reconciliation that follows.   *)

\* the steps of increaseSoaSerial that fail with a command or a copy, not
\* with the text of the zone file
SerialFaults == {"fetch", "checksum", "push", "size", "install"}

\* the zones whose include-file the last command replaced and whose serial it
\* did not advance, the Serial Editor having failed
LeftBehind ==
    IF prev.mode = "rebuild" /\ prev.failed \in SerialFaults
    THEN {name \in ZoneNames(conf) :
            /\ \E i \in 1..Len(prev.log) : prev.log[i] = <<"move", name>>
            /\ \A i \in 1..Len(prev.log) : prev.log[i] # <<"serial", name>>}
    ELSE {}

\* C27: when a reconciliation has replaced the include-file of a zone and the
\* Serial Editor has then failed for it, the next reconciliation of the same
\* records, once it has ended without a failure, has advanced the serial
\* of that zone and reloaded it.
C27_NextRunAdvancesSerial ==
    (mode = "rebuild" /\ pc = "idle" /\ failed = "" /\ records = prev.records) =>
        \A name \in LeftBehind :
            Advanced(name) /\ <<"reload", name>> \in Events

-----------------------------------------------------------------------------
(* The lines of a records file: Records.load of dnsmgr_util.py, lines      *)
(* 249..287 (file_loader.py, lines 85..98, splits a line the same way).    *)

\* s.lstrip()
RECURSIVE LStrip(_)
LStrip(s) == IF s # <<>> /\ s[1] \in Whitespace THEN LStrip(Tail(s)) ELSE s

\* the length of the first word of a text that does not start with whitespace
WordLen(t) ==
    IF \E k \in 1..Len(t) : t[k] \in Whitespace
    THEN (CHOOSE k \in 1..Len(t) :
              t[k] \in Whitespace /\ \A j \in 1..(k - 1) : t[j] \notin Whitespace) - 1
    ELSE Len(t)

\* s.split(None, maxsplit): the words between runs of whitespace; after
\* maxsplit words the rest of the text, as it is, is the last element
RECURSIVE SplitNone(_, _)
SplitNone(s, maxsplit) ==
    LET t == LStrip(s)
    IN  IF t = <<>> THEN <<>>
        ELSE IF maxsplit = 0 THEN <<t>>
        ELSE <<SubSeq(t, 1, WordLen(t))>>
             \o SplitNone(SubSeq(t, WordLen(t) + 1, Len(t)), maxsplit - 1)

\* allowed_chars, line 20, and verify_dnsname, lines 152..157
AllowedChars ==
    Digits \cup {UpperAlpha[k] : k \in 1..26} \cup {LowerChar(UpperAlpha[k]) : k \in 1..26}
    \cup {"_", "-", "."}

VerifyDnsname(name) == \A k \in 1..Len(name) : name[k] \in AllowedChars

\* ipaddress.IPv4Address(text): four decimal octets, none with a leading zero
IsIPv4Text(s) ==
    LET ip == Split(s, ".")
    IN  /\ Len(ip) = 4
        /\ \A k \in 1..4 :
            /\ AllDigits(ip[k]) /\ Len(ip[k]) <= 3
            /\ Len(ip[k]) > 1 => ip[k][1] # "0"
            /\ DecInt(ip[k]) <= 255

HexChars == Digits \cup {"a","b","c","d","e","f","A","B","C","D","E","F"}

IsHextet(g) == Len(g) \in 1..4 /\ \A k \in 1..Len(g) : g[k] \in HexChars

\* the groups on one side of "::"
Hextets(s) == IF s = <<>> THEN <<>> ELSE Split(s, ":")

\* ipaddress.IPv6Address(text): the eight groups of the address, "::"
\* standing for the groups left out; an empty tuple when the text is no address
Ipv6Groups(s) ==
    LET at == {p \in 1..(Len(s) - 1) : s[p] = ":" /\ s[p + 1] = ":"}
    IN  IF at = {}
        THEN (IF s # <<>> /\ Len(Split(s, ":")) = 8 /\ \A k \in 1..8 : IsHextet(Split(s, ":")[k])
              THEN Split(s, ":") ELSE <<>>)
        ELSE IF Cardinality(at) > 1 THEN <<>>
        ELSE LET p     == CHOOSE q \in at : TRUE
                 left  == Hextets(SubSeq(s, 1, p - 1))
                 right == Hextets(SubSeq(s, p + 2, Len(s)))
             IN  IF /\ Len(left) + Len(right) <= 7
                    /\ \A k \in 1..Len(left) : IsHextet(left[k])
                    /\ \A k \in 1..Len(right) : IsHextet(right[k])
                 THEN left \o [k \in 1..(8 - Len(left) - Len(right)) |-> <<"0">>] \o right
                 ELSE <<>>

RECURSIVE Nibbles(_)
Nibbles(groups) ==
    IF groups = <<>> THEN <<>> ELSE ZFill(Lower(Head(groups)), 4) \o Nibbles(Tail(groups))

\* the types Records.load takes besides A and AAAA, line 283
OtherTypes ==
    {<<"C","N","A","M","E">>, <<"M","X">>, <<"N","S">>, <<"P","T","R">>, <<"S","R","V">>,
     <<"S","S","H","F","P">>, <<"T","L","S","A">>, <<"T","S","I","G">>, <<"T","X","T">>}

\* an exception leaves Records.load
LineRaised(e) == [kind |-> "raise", ok |-> FALSE, v |-> e]

\* lines 279..284: the value of the record, by type
LineValue(typ, value) ==
    IF typ = TypA
    THEN (IF IsIPv4Text(value) THEN [ok |-> TRUE, v |-> IPv4Address(ParseQuad(value))]
          ELSE LineRaised("AddressValueError"))
    ELSE IF typ = TypAAAA
    THEN (IF Ipv6Groups(value) # <<>> THEN [ok |-> TRUE, v |-> IPv6Address(Nibbles(Ipv6Groups(value)), value)]
          ELSE LineRaised("AddressValueError"))
    ELSE IF typ \in OtherTypes THEN [ok |-> TRUE, v |-> Str(value)]
    ELSE LineRaised("ValueError")

\* "%s.%s" % (name, domain), the domain being None before the first $DOMAIN
DomainText(domain) == IF domain = <<>> THEN <<"N","o","n","e">> ELSE domain

\* line 286: Record(domain=self.domain, ttl=ttl, name=name, typ=typ, value=value)
LineRecord(domain, ttl, name, typ, value) ==
    [UtilRecord(DomainText(domain), name, typ, value, None)
        EXCEPT !.domain = domain, !.ttl = ttl]

\* lines 265..287: a line that is no directive
LoadRecordLine(domain, line) ==
    LET tmp   == SplitNone(line, 3)
        name  == tmp[1]
        ttl   == IF AllDigits(tmp[2]) THEN tmp[2] ELSE <<>>
        rest  == IF AllDigits(tmp[2]) THEN SubSeq(tmp, 3, Len(tmp)) ELSE SubSeq(tmp, 2, Len(tmp))
    IN  IF Len(tmp) < 2 THEN LineRaised("ValueError")
        ELSE IF name # <<"@">> /\ ~VerifyDnsname(name) THEN LineRaised("ValueError")
        ELSE IF Len(rest) < 2 THEN LineRaised("IndexError")
        ELSE LET value == LineValue(Upper(rest[1]), rest[2])
             IN  IF value.ok
                 THEN [kind |-> "record", ok |-> TRUE,
                       v |-> LineRecord(domain, ttl, name, Upper(rest[1]), value.v)]
                 ELSE value

\* lines 249..263: the body of the loop for one line of the file
LoadLine(domain, text) ==
    LET line == RStrip(text)
        tmp  == SplitNone(line, 2)
    IN  IF line = <<>> \/ line[1] \in {"#", ";"} THEN [kind |-> "skip", ok |-> TRUE]
        ELSE IF line[1] = "$"
        THEN (IF Len(tmp) < 2 THEN LineRaised("ValueError")
              ELSE IF tmp[1] = <<"$","D","O","M","A","I","N">>
              THEN [kind |-> "domain", ok |-> TRUE, v |-> tmp[2]]
              ELSE IF tmp[1] = <<"$","I","N","C","L","U","D","E">>
              THEN [kind |-> "include", ok |-> TRUE, v |-> tmp[2]]
              ELSE LineRaised("ValueError"))
        ELSE LoadRecordLine(domain, line)

MaxLines == 2

\* the fields lines are made of
LineNames == {<<"w","w","w">>, <<"@">>}
LineTtls == {<<>>, <<"3","0","0">>}
LineTypes ==
    {<<<<"A">>, <<"1","9","2",".","0",".","2",".","5">>>>, <<<<"a">>, <<"1","9","2",".","0",".","2",".","6">>>>, <<<<"A","A","A","A">>, <<"2","0","0","1",":","d","b","8",":",":","1">>>>,
     <<<<"M","X">>, <<"1","0"," ","m","x","1">>>>, <<<<"T","X","T">>, <<"v","=","s","p","f","1"," ","-","a","l","l">>>>, <<<<"C","N","A","M","E">>, <<"f","t","p">>>>,
     <<<<"S","R","V">>, <<"0"," ","5"," ","5","0","6","0"," ","s","i","p">>>>, <<<<"A">>, <<"1","9","2",".","0",".","2",".","0","5">>>>, <<<<"A">>, <<"1","9","2",".","0",".","2",".","5"," ","x">>>>,
     <<<<"A","A","A","A">>, <<"2","0","0","1",":","d","b","8",":",":","g">>>>, <<<<"H","I","N","F","O">>, <<"p","c">>>>}
LineGaps == {<<" ">>, <<TAB>>}

\* name, TTL (when there is one), type and value with a gap between them
MkLine(name, ttl, typ, value, gap) ==
    name \o gap \o (IF ttl = <<>> THEN <<>> ELSE ttl \o gap) \o typ \o gap \o value \o <<NL>>

\* the lines of the records file
Lines ==
    {MkLine(n, t, tv[1], tv[2], g) : n \in LineNames, t \in LineTtls, tv \in LineTypes, g \in LineGaps}
    \cup {<<NL>>, <<"#"," ","h","o","s","t","s",NL>>, <<";"," ","h","o","s","t","s",NL>>, <<"$","D","O","M","A","I","N"," ","e","x","a","m","p","l","e",".","c","o","m",NL>>, <<"$","D","O","M","A","I","N",NL>>,
          <<"$","I","N","C","L","U","D","E"," ","m","o","r","e",NL>>, <<"$","T","T","L"," ","3","0","0",NL>>, <<"w","w","w",NL>>, <<"w","w","w"," ","3","0","0",NL>>, <<"w","w","w"," ","A",NL>>,
          <<"w","!","w"," ","A"," ","1","9","2",".","0",".","2",".","5",NL>>, <<" "," ","w","w","w"," ","A"," ","1","9","2",".","0",".","2",".","5"," "," ",NL>>}

InitLine ==
    /\ NoServer
    /\ NoDhcp
    /\ NoLine

\* Records.load: one turn of "for line in open(filename)"; a record is added
\* to the records, $DOMAIN sets the domain, an exception ends the loading
RecordsLoad ==
    /\ rcount < MaxLines
    /\ rout.ok
    /\ \E text \in Lines :
        LET out == LoadLine(rdomain, text)
        IN  /\ rline' = text
            /\ rout' = out
            /\ rdomain' = IF out.kind = "domain" THEN out.v ELSE rdomain
            /\ records' = IF out.kind = "record" THEN RecordsAdd(records, out.v) ELSE records
    /\ rcount' = rcount + 1
    /\ UNCHANGED <<zones, lpmVars, cfgVars, fileVars, parseVars, loadVars, dhcpVars,
                   nszones, pc, mode, cur, todo, runs, faults, log, failed, srv0, prev>>

NextLine == RecordsLoad

SpecLine == InitLine /\ [][NextLine]_vars

\* a line has a TTL when its second word is a number
HasTtl(text) ==
    LET words == SplitNone(RStrip(text), Len(text))
    IN  Len(words) >= 2 /\ AllDigits(words[2])

\* the whole remainder of a line after its type field
AfterType(text) ==
    LET n == IF HasTtl(text) THEN 3 ELSE 2
    IN  SplitNone(RStrip(text), n)[n + 1]

ValueIsRemainder ==
    LineValue(rout.v.typ, AfterType(rline)) = [ok |-> TRUE, v |-> rout.v.value[1]]

\* C28: the value stored for a record line is the whole remainder of the
\* line after the type field, with a TTL field and without one.
C28_ValueIsWholeRemainder == rout.kind = "record" => ValueIsRemainder

\* the same, of the lines that have a TTL field
ValueIsWholeRemainderWithTtl == (rout.kind = "record" /\ HasTtl(rline)) => ValueIsRemainder

-----------------------------------------------------------------------------
(* The owner names of a reverse zone (saveZone, lines 540..555): the arpa  *)
(* name of the address, cut by the length of the zone name and one.        *)

\* the text is in the file
Occurs(data, text) ==
    \E p \in 1..(Len(data) - Len(text) + 1) : SubSeq(data, p, p + Len(text) - 1) = text

\* the full reversed arpa name of the address of a PTR resource record
ArpaName(rr) ==
    IF rr.name.fam = 4
    THEN Ipv4AddrToReverse(StrOf(rr.name)) \o <<".","i","n","-","a","d","d","r",".","a","r","p","a">>
    ELSE Ipv6AddrToReverse(rr.name) \o <<".","i","p","6",".","a","r","p","a">>

\* the owner name at the start of a rendered line
OwnerName(line) == SubSeq(line, 1, WordLen(line))

\* the line of every resource record of the reverse zone is in its rendered
\* file, and its owner name, "." and the zone name make the arpa name
OwnerNamesComplete(zone) ==
    \A rr \in UNION {{zone.records[key][i] : i \in 1..Len(zone.records[key])} : key \in DOMAIN zone.records} :
        /\ Occurs(lfs[TmpPath(zone.zone)].data, RenderRR(zone, rr))
        /\ OwnerName(RenderRR(zone, rr)) \o <<".">> \o zone.zone = ArpaName(rr)

\* C29: for every PTR resource record the router has placed in a reverse
\* zone, the owner name rendered in the include-file of the zone, followed by
\* "." and the name of the zone, is the full reversed arpa name of the address.
C29_OwnerNamePlusZoneIsArpaName ==
    lpc = "done" =>
        \A k \in 1..Len(ZonesIter(zones)) :
            ZonesIter(zones)[k].typ # "forward" => OwnerNamesComplete(ZonesIter(zones)[k])

\* the same of the IPv4 reverse zones
OwnerNamePlusZoneIsArpaName4 ==
    lpc = "done" =>
        \A k \in 1..Len(ZonesIter(zones)) :
            ZonesIter(zones)[k].typ = "reverse4" => OwnerNamesComplete(ZonesIter(zones)[k])

\* a PTR resource record has been rendered in an IPv4 and in an IPv6 reverse zone
OwnerNamesRendered ==
    /\ lpc = "done"
    /\ \A t \in {"reverse4", "reverse6"} :
        \E k \in 1..Len(ZonesIter(zones)) :
            ZonesIter(zones)[k].typ = t /\ DOMAIN ZonesIter(zones)[k].records # {}

====
